---- MODULE Spec2Model ----
(***************************************************************************)
(* On-chain state machine of the JAM Reports component: the maps rho,      *)
(* omega, xi, psi_B, psi_O and globalState of OnchainState, the three      *)
(* extrinsic processors (Guarantee, Assurance, Dispute) and the            *)
(* accumulation processor with its topological sort.                       *)
(*                                                                         *)
(* A digest (64-char hex string) is modelled by a natural number; the      *)
(* order of the numbers is the lexicographic order of the hex strings.     *)
(* A JS Map that the code iterates (omega) is a sequence of entries in     *)
(* insertion order; the maps that are only looked up by key are functions. *)
(***************************************************************************)
EXTENDS Integers, Sequences, FiniteSets, TLC

VARIABLES rho, omega, xi, psi_B, psi_O, globalState, block, calls, last

vars == <<rho, omega, xi, psi_B, psi_O, globalState, block, calls, last>>

(***************************************************************************)
(* Program constants (src/src/onchain/constants.ts).                       *)
(***************************************************************************)
SUPER_MAJORITY_THRESHOLD_NUMERATOR == 2
SUPER_MAJORITY_THRESHOLD_DENOMINATOR == 3
REPORT_TIMEOUT_SLOTS == 100
MAX_DEPENDENCIES == 10
MAX_WORK_REPORT_GAS == 200000
MIN_SERVICE_ITEM_GAS == 10
MAX_CORE_INDEX == 1023
ANCHOR_MAX_AGE_SLOTS == 50

\* Gas consumed by the three program kinds of the PVM mock.
GAS_TRANSFER == 50
GAS_UPDATE_DATA == 20
GAS_DEFAULT == 10

(***************************************************************************)
(* Bounds of the model.                                                    *)
(***************************************************************************)
\* The disputeCounts of psi_O are capped: an operation that would raise
\* their sum above the cap is not taken.
MaxDisputes == 2
\* Number of times a behaviour advances to the next block.
MaxBlocks == 1
\* Number of extrinsics and queue sweeps a behaviour processes.
MaxCalls == 4
\* The number of fields a variant report of the validation runs may differ in.
MaxFaults == 2

(***************************************************************************)
(* Small helpers on sequences and functions.                               *)
(***************************************************************************)
Range(s) == {s[i] : i \in DOMAIN s}

Includes(s, x) == \E i \in DOMAIN s : s[i] = x

\* Number of positions of s that satisfy membership in S.
RECURSIVE CountIn(_, _)
CountIn(s, S) ==
    IF s = <<>> THEN 0
    ELSE (IF Head(s) \in S THEN 1 ELSE 0) + CountIn(Tail(s), S)

\* JS Map.set / Map.delete on a map that is only looked up by key.
MapSet(m, k, v) == [x \in DOMAIN m \cup {k} |-> IF x = k THEN v ELSE m[x]]

MapDelete(m, k) == [x \in DOMAIN m \ {k} |-> m[x]]

EmptyMap == [x \in {} |-> 0]

CeilDiv(a, b) == (a + b - 1) \div b

(***************************************************************************)
(* Identities.                                                             *)
(***************************************************************************)
Guarantors == {"g1", "g2", "g3"}

Disputers == {"p1", "p2"}

(***************************************************************************)
(* Work items, packages, contexts.                                         *)
(***************************************************************************)
WorkItem(id, programHash, inputData, gasLimit) ==
    [id |-> id, programHash |-> programHash, inputData |-> inputData,
     gasLimit |-> gasLimit]

TransferInput(from, to, amount) == [from |-> from, to |-> to, amount |-> amount]

UpdateInput(key, value) == [key |-> key, value |-> value]

WorkPackage(u, workItems) ==
    [authorizationServiceDetails |-> [u |-> u], workItems |-> workItems]

RefinementContext(anchorBlockNumber, currentEpoch, cur, prev) ==
    [anchorBlockNumber |-> anchorBlockNumber, currentEpoch |-> currentEpoch,
     currentGuarantors |-> cur, previousGuarantors |-> prev]

\* The fields of a WorkReport that the on-chain code reads, without the
\* guarantor's identity and signature.
Content(workPackage, refinementContext, gasUsed, coreIndex, slot, dependencies) ==
    [workPackage |-> workPackage, refinementContext |-> refinementContext,
     gasUsed |-> gasUsed, coreIndex |-> coreIndex, slot |-> slot,
     dependencies |-> dependencies]

SignableFields ==
    {"workPackage", "refinementContext", "gasUsed", "coreIndex", "slot",
     "dependencies"}

ReportFields == SignableFields \cup {"guarantorPublicKey", "guarantorSignature"}

WorkReport(content, guarantorPublicKey, guarantorSignature) ==
    [f \in ReportFields |->
        IF f = "guarantorPublicKey" THEN guarantorPublicKey
        ELSE IF f = "guarantorSignature" THEN guarantorSignature
        ELSE content[f]]

\* WorkReport.toSignableObject: the report without the guarantor's
\* signature and identity, so that the endorsements of several guarantors
\* of one report meet under one digest.
toSignableObject(report) == [f \in SignableFields |-> report[f]]

(***************************************************************************)
(* The reports of the model.  Content i has digest HexOf[i]; dependencies  *)
(* name digests.                                                           *)
(*   A  (digest 2): no dependencies, one transfer, three guarantors.       *)
(*   B  (digest 3): depends on A; a data update, then a transfer.          *)
(*   C  (digest 1): names A twice in its dependencies; a data update of    *)
(*                  the key B writes.                                      *)
(***************************************************************************)
HexOf == <<2, 3, 1>>

ContextABC == RefinementContext(99, 1, <<"g1", "g2", "g3">>, <<>>)

ContextOne == RefinementContext(99, 1, <<"g1">>, <<>>)

Contents ==
    << Content(WorkPackage("service.jam",
                   << WorkItem("wi-a1", "0xtransfer",
                               TransferInput("0xAlice", "0xBob", 100), 50) >>),
               ContextABC, 500, 0, 100, <<>>),
       Content(WorkPackage("service.jam",
                   << WorkItem("wi-b1", "0xupdateData", UpdateInput("k1", "v1"), 20),
                      WorkItem("wi-b2", "0xtransfer",
                               TransferInput("0xAlice", "0xBob", 100), 50) >>),
               ContextOne, 500, 0, 100, <<2>>),
       Content(WorkPackage("service.jam",
                   << WorkItem("wi-c1", "0xupdateData", UpdateInput("k1", "v2"), 20) >>),
               ContextOne, 500, 0, 100, <<2, 2>>) >>

Digests == Range(HexOf)

(***************************************************************************)
(* Reports for the validation checks.  The plain variant is a report of    *)
(* service.jam on core 0 whose first item runs the registered program,     *)
(* with g1 in the current roster and g2 in the previous one.  A variant    *)
(* has any report slot and declared epoch, and differs from the plain one  *)
(* in the fields its faults name:                                          *)
(*   anchor    an anchor block long past;                                  *)
(*   core      a core index beyond MAX_CORE_INDEX;                         *)
(*   engaged   core 1, which the state of the validation runs has engaged; *)
(*   service   a service that is not registered;                           *)
(*   code      a first item whose program is not the registered one;       *)
(*   many_deps MAX_DEPENDENCIES + 1 dependencies, all on A;                *)
(*   dep       one dependency, on A;                                       *)
(*   gas       more gas used than MAX_WORK_REPORT_GAS;                     *)
(*   item_gas  an item gas limit below MIN_SERVICE_ITEM_GAS.               *)
(***************************************************************************)
ContentFaults ==
    {"anchor", "core", "engaged", "service", "code", "many_deps", "dep", "gas",
     "item_gas"}

FaultSets ==
    {F \in SUBSET ContentFaults :
        /\ Cardinality(F) <= MaxFaults
        /\ ~({"core", "engaged"} \subseteq F)
        /\ ~({"many_deps", "dep"} \subseteq F)}

VariantSlots == {49, 100, 151}

VariantEpochs == {0, 1, 2}

VariantChoices == [slot : VariantSlots, epoch : VariantEpochs, faults : FaultSets]

VariantContent(c) ==
    LET F == c.faults
        gasLimit == IF "item_gas" \in F THEN MIN_SERVICE_ITEM_GAS - 1 ELSE 50
    IN  Content(
            WorkPackage(IF "service" \in F THEN "unknown.jam" ELSE "service.jam",
                << IF "code" \in F
                   THEN WorkItem("wi-v1", "0xtransfer",
                                 TransferInput("0xAlice", "0xBob", 10), gasLimit)
                   ELSE WorkItem("wi-v1", "0xprogramhash123",
                                 UpdateInput("k1", "v1"), gasLimit) >>),
            RefinementContext(IF "anchor" \in F THEN 1 ELSE 120, c.epoch,
                              <<"g1">>, <<"g2">>),
            IF "gas" \in F THEN MAX_WORK_REPORT_GAS + 1 ELSE 500,
            IF "core" \in F THEN MAX_CORE_INDEX + 1
            ELSE IF "engaged" \in F THEN 1 ELSE 0,
            c.slot,
            IF "many_deps" \in F THEN [i \in 1..(MAX_DEPENDENCIES + 1) |-> HexOf[1]]
            ELSE IF "dep" \in F THEN <<HexOf[1]>> ELSE <<>>)

\* A report that stays pending after two endorsements: four listed
\* guarantors, so a threshold of three, and an anchor that is recent at
\* every slot of the model.
PendingContent ==
    Content(WorkPackage("service.jam",
                << WorkItem("wi-p1", "0xupdateData", UpdateInput("k2", "v1"), 20) >>),
            RefinementContext(160, 1, <<"g1", "g2", "g3">>, <<"g0">>),
            500, 0, 100, <<>>)

\* The digest of a content outside the catalog: a number above the
\* catalog's, made of the fields in which these contents differ from one
\* another.
VariantHex(m) ==
    LET bit(b, w) == IF b THEN w ELSE 0
        context == m.refinementContext
        item == m.workPackage.workItems[1]
    IN  10 + m.slot + 1000 * context.currentEpoch
           + 10000 * ( bit(context.anchorBlockNumber = 1, 1)
                     + bit(m.coreIndex = 1, 2)
                     + bit(m.coreIndex > 1, 4)
                     + bit(m.workPackage.authorizationServiceDetails.u # "service.jam", 8)
                     + bit(item.programHash = "0xtransfer", 16)
                     + bit(item.programHash = "0xupdateData", 32)
                     + bit(m.gasUsed > 500, 64)
                     + bit(item.gasLimit < MIN_SERVICE_ITEM_GAS, 128)
                     + 256 * Len(m.dependencies)
                     + 4096 * Len(context.currentGuarantors) )

(***************************************************************************)
(* Reports for the accumulation sweep, all but P with g1 as the only       *)
(* guarantor listed, so that one Guarantee promotes them:                  *)
(*   T (digest 41): a transfer of 60 from 0xAlice to 0xBob;                *)
(*   U (digest 42): a data update, then a program the mock does not know,  *)
(*                  which appends to the log;                              *)
(*   O (digest 43): an unknown program, then a transfer whose gas limit    *)
(*                  is below the 50 the mock consumes for a transfer;      *)
(*   I (digest 44): a transfer of 70 from 0xAlice, more than T leaves;     *)
(*   P (digest 45): a data update, three guarantors listed;                *)
(*   D (digest 46): a data update, depending on P.                         *)
(***************************************************************************)
PvmHexOf == <<41, 42, 43, 44, 45, 46>>

PvmContents ==
    << Content(WorkPackage("service.jam",
                   << WorkItem("wi-t1", "0xtransfer",
                               TransferInput("0xAlice", "0xBob", 60), 50) >>),
               ContextOne, 500, 0, 100, <<>>),
       Content(WorkPackage("service.jam",
                   << WorkItem("wi-u1", "0xupdateData", UpdateInput("k1", "v1"), 20),
                      WorkItem("wi-u2", "0xnoop", UpdateInput("k0", "v0"), 10) >>),
               ContextOne, 500, 0, 100, <<>>),
       Content(WorkPackage("service.jam",
                   << WorkItem("wi-o1", "0xnoop", UpdateInput("k0", "v0"), 10),
                      WorkItem("wi-o2", "0xtransfer",
                               TransferInput("0xAlice", "0xBob", 10), 30) >>),
               ContextOne, 500, 0, 100, <<>>),
       Content(WorkPackage("service.jam",
                   << WorkItem("wi-i1", "0xtransfer",
                               TransferInput("0xAlice", "0xBob", 70), 50) >>),
               ContextOne, 500, 0, 100, <<>>),
       Content(WorkPackage("service.jam",
                   << WorkItem("wi-p2", "0xupdateData", UpdateInput("k2", "v2"), 20) >>),
               ContextABC, 500, 0, 100, <<>>),
       Content(WorkPackage("service.jam",
                   << WorkItem("wi-d1", "0xupdateData", UpdateInput("k3", "v3"), 20) >>),
               ContextOne, 500, 0, 100, <<45>>) >>

PvmDigests == Range(PvmHexOf)

\* sha256 over the JSON of a signable object: injective on the contents of
\* the model.
sha256(m) ==
    IF \E i \in DOMAIN Contents : Contents[i] = m
    THEN HexOf[CHOOSE i \in DOMAIN Contents : Contents[i] = m]
    ELSE IF \E i \in DOMAIN PvmContents : PvmContents[i] = m
    THEN PvmHexOf[CHOOSE i \in DOMAIN PvmContents : PvmContents[i] = m]
    ELSE VariantHex(m)

\* generateWorkDigest as it would be if the signature were hashed with the
\* content: a report under another's signature gets a digest of its own.
generateWorkDigest_Signed(report) ==
    sha256(toSignableObject(report))
        + (IF report.guarantorSignature.signer = report.guarantorPublicKey THEN 0 ELSE 5)

generateWorkDigest(report) == sha256(toSignableObject(report))

\* Ed25519: a signature names its signer and the message it was made over.
signMessage(messageObject, signer) ==
    [signer |-> signer, message |-> sha256(messageObject)]

\* verifySignature as it would be if it accepted a signature made over
\* the right message by any signer.
verifySignature_AnySigner(messageObject, signature, publicKey) ==
    signature.message = sha256(messageObject)

verifySignature(messageObject, signature, publicKey) ==
    signature = signMessage(messageObject, publicKey)

\* A report as the guarantor's refine step emits it: signed by the
\* identity it names.
SignedReport(i, k) == WorkReport(Contents[i], k, signMessage(Contents[i], k))

\* Reports submitted in Guarantee extrinsics: A endorsed by each of its
\* guarantors, B and C by g1, B by g2 (who is not in B's rosters), and A
\* naming g1 under a signature made by g3.
Reports ==
    {SignedReport(1, k) : k \in Guarantors}
    \cup {SignedReport(2, "g1"), SignedReport(3, "g1"), SignedReport(2, "g2")}
    \cup {WorkReport(Contents[1], "g1", signMessage(Contents[1], "g3"))}

\* The currentBlockDigests argument: empty, or A's digest.
BlockDigestChoices == {{}, {HexOf[1]}}

\* Variants as submitted: naming a guarantor of the current roster, of
\* the previous roster or of neither, under that guarantor's signature or
\* under another's.
ValidationReports ==
    {WorkReport(VariantContent(c), k,
                signMessage(VariantContent(c),
                            IF ~forged THEN k ELSE IF k = "g3" THEN "g1" ELSE "g3")) :
        c \in VariantChoices, k \in Guarantors, forged \in BOOLEAN}

\* The pending report endorsed by each of its current guarantors.
\* The sweep reports as endorsed: each by g1, and P by g2 as well.
PvmReports ==
    {WorkReport(PvmContents[i], "g1", signMessage(PvmContents[i], "g1")) : i \in 1..6}
    \cup {WorkReport(PvmContents[5], "g2", signMessage(PvmContents[5], "g2"))}

PendingReports ==
    {WorkReport(PendingContent, k, signMessage(PendingContent, k)) : k \in Guarantors}

(***************************************************************************)
(* omega: a JS Map in insertion order, as a sequence of entries            *)
(* [digest, report, status].                                               *)
(***************************************************************************)
OmegaKeys(w) == [i \in DOMAIN w |-> w[i].digest]

OmegaHas(w, d) == \E i \in DOMAIN w : w[i].digest = d

OmegaGet(w, d) == w[CHOOSE i \in DOMAIN w : w[i].digest = d]

\* Map.set keeps the position of an existing key and appends a new one.
OmegaSet(w, d, report, status) ==
    LET e == [digest |-> d, report |-> report, status |-> status]
    IN  IF OmegaHas(w, d)
        THEN [i \in DOMAIN w |-> IF w[i].digest = d THEN e ELSE w[i]]
        ELSE Append(w, e)

OmegaDelete(w, d) == SelectSeq(w, LAMBDA e : e.digest # d)

(***************************************************************************)
(* OnchainState: the state after construction, with the genesis accounts   *)
(* and registrations the callers install before the first extrinsic.       *)
(***************************************************************************)
Account(balance) == [balance |-> balance]

GenesisGlobalState ==
    [accounts |-> [a \in {"0xAlice", "0xBob"} |->
                      IF a = "0xAlice" THEN Account(100) ELSE Account(50)],
     data |-> EmptyMap,
     log |-> <<>>,
     coreStatus |-> [c \in {0} |-> "available"],
     serviceRegistry |-> [u \in {"service.jam"} |->
                      [codeHash |-> "0xprogramhash123", owner |-> "0xServiceOwner"]]]

\* The processors' view of the OnchainState object.
State == [rho |-> rho, omega |-> omega, xi |-> xi, psi_B |-> psi_B,
          psi_O |-> psi_O, globalState |-> globalState]

\* OnchainState.getReportByDigest: the report found, as a one-element set,
\* or the empty set for undefined.
getReportByDigest(S, digestHash) ==
    IF digestHash \in DOMAIN S.xi THEN {S.xi[digestHash]}
    ELSE IF digestHash \in DOMAIN S.rho THEN {S.rho[digestHash].report}
    ELSE IF OmegaHas(S.omega, digestHash) THEN {OmegaGet(S.omega, digestHash).report}
    ELSE {}

\* ChargeOffender as it would be if the processors wrote a new record
\* {1, slot} into a map of their own instead of updating psi_O's.
ChargeOffender_Fresh(offenders, guarantorPublicKey, slot) ==
    [g \in {guarantorPublicKey} |-> [disputeCount |-> 1, lastDisputeSlot |-> slot]]

\* The offender update shared by the three processors: increment
\* disputeCount and set lastDisputeSlot, or create {1, slot}.
ChargeOffender(offenders, guarantorPublicKey, slot) ==
    IF guarantorPublicKey \in DOMAIN offenders
    THEN [offenders EXCEPT ![guarantorPublicKey] =
             [disputeCount |-> @.disputeCount + 1, lastDisputeSlot |-> slot]]
    ELSE MapSet(offenders, guarantorPublicKey,
                [disputeCount |-> 1, lastDisputeSlot |-> slot])

BadReport(reason, disputedBy) == [reason |-> reason, disputedBy |-> disputedBy]

(***************************************************************************)
(* validateWorkReport: the tag of the first failing check, in the order    *)
(* of the code, or "ok".  The bad_service_id and bad_code_hash checks are  *)
(* commented out in guaranteeProcessor.js and throw nothing.               *)
(***************************************************************************)
\* isGuarantorAssigned as it would be if membership of either roster were
\* enough, whatever the epoch of the report's slot.
isGuarantorAssigned_AnyRoster(report) ==
    \/ Includes(report.refinementContext.currentGuarantors, report.guarantorPublicKey)
    \/ Includes(report.refinementContext.previousGuarantors, report.guarantorPublicKey)

isGuarantorAssigned(report) ==
    LET context == report.refinementContext
        reportEpoch == report.slot \div REPORT_TIMEOUT_SLOTS
    IN  \/ /\ reportEpoch = context.currentEpoch
           /\ Includes(context.currentGuarantors, report.guarantorPublicKey)
        \/ /\ reportEpoch = context.currentEpoch - 1
           /\ Includes(context.previousGuarantors, report.guarantorPublicKey)

\* isDependencyMet as it would be if a dependency waiting in the
\* accumulation queue counted as met.
isDependencyMet_Queued(S, depHash, currentBlockDigests) ==
    \/ depHash \in DOMAIN S.xi
    \/ depHash \in DOMAIN S.rho
    \/ OmegaHas(S.omega, depHash)
    \/ depHash \in currentBlockDigests

\* isDependencyMet as it would be if every dependency counted as met.
isDependencyMet_Always(S, depHash, currentBlockDigests) == TRUE

isDependencyMet(S, depHash, currentBlockDigests) ==
    \/ depHash \in DOMAIN S.xi
    \/ depHash \in DOMAIN S.rho
    \/ depHash \in currentBlockDigests

\* isFinalized as it would be without the lookup in xi.
isFinalized_Never(S, digestHash) == FALSE

\* xi.has(reportDigest.hash): the package was already finalized.
isFinalized(S, digestHash) == digestHash \in DOMAIN S.xi

\* validateWorkReport as it would be without the test of the age of the
\* report's slot.
validateWorkReport_NoRotationCheck(report, S, slot, currentBlockDigests) ==
    LET context == report.refinementContext
        items == report.workPackage.workItems
    IN  IF ~verifySignature(toSignableObject(report), report.guarantorSignature,
                            report.guarantorPublicKey)
        THEN "bad_signature"
        ELSE IF slot - context.anchorBlockNumber > ANCHOR_MAX_AGE_SLOTS
        THEN "anchor_not_recent"
        ELSE IF report.coreIndex < 0 \/ report.coreIndex > MAX_CORE_INDEX
        THEN "bad_core_index"
        ELSE IF ~isGuarantorAssigned(report)
        THEN "wrong_assignment / not_authorized"
        ELSE IF /\ report.coreIndex \in DOMAIN S.globalState.coreStatus
                /\ S.globalState.coreStatus[report.coreIndex] = "engaged"
        THEN "core_engaged"
        ELSE IF report.slot > slot
        THEN "future_report_slot"
        ELSE IF Len(report.dependencies) > MAX_DEPENDENCIES
        THEN "too_many_dependencies"
        ELSE IF \E i \in DOMAIN report.dependencies :
                    ~isDependencyMet(S, report.dependencies[i], currentBlockDigests)
        THEN "dependency_missing / segment_root_lookup_invalid"
        ELSE IF report.gasUsed > MAX_WORK_REPORT_GAS
        THEN "too_high_work_report_gas"
        ELSE IF \E i \in DOMAIN items : items[i].gasLimit < MIN_SERVICE_ITEM_GAS
        THEN "service_item_gas_too_low"
        ELSE IF isFinalized(S, generateWorkDigest(report))
        THEN "duplicate_package_in_recent_history"
        ELSE "ok"

validateWorkReport(report, S, slot, currentBlockDigests) ==
    LET context == report.refinementContext
        items == report.workPackage.workItems
    IN  IF ~verifySignature(toSignableObject(report), report.guarantorSignature,
                            report.guarantorPublicKey)
        THEN "bad_signature"
        ELSE IF slot - context.anchorBlockNumber > ANCHOR_MAX_AGE_SLOTS
        THEN "anchor_not_recent"
        ELSE IF report.coreIndex < 0 \/ report.coreIndex > MAX_CORE_INDEX
        THEN "bad_core_index"
        ELSE IF ~isGuarantorAssigned(report)
        THEN "wrong_assignment / not_authorized"
        ELSE IF /\ report.coreIndex \in DOMAIN S.globalState.coreStatus
                /\ S.globalState.coreStatus[report.coreIndex] = "engaged"
        THEN "core_engaged"
        ELSE IF report.slot > slot
        THEN "future_report_slot"
        ELSE IF slot - report.slot > REPORT_TIMEOUT_SLOTS
        THEN "report_before_last_rotation"
        ELSE IF Len(report.dependencies) > MAX_DEPENDENCIES
        THEN "too_many_dependencies"
        ELSE IF \E i \in DOMAIN report.dependencies :
                    ~isDependencyMet(S, report.dependencies[i], currentBlockDigests)
        THEN "dependency_missing / segment_root_lookup_invalid"
        ELSE IF report.gasUsed > MAX_WORK_REPORT_GAS
        THEN "too_high_work_report_gas"
        ELSE IF \E i \in DOMAIN items : items[i].gasLimit < MIN_SERVICE_ITEM_GAS
        THEN "service_item_gas_too_low"
        ELSE IF isFinalized(S, generateWorkDigest(report))
        THEN "duplicate_package_in_recent_history"
        ELSE "ok"

\* validateWorkReport of guaranteeProcessor.ts: no core index check, and
\* the bad_code_hash check throws.
validateWorkReportTs(report, S, slot, currentBlockDigests) ==
    LET context == report.refinementContext
        items == report.workPackage.workItems
        serviceId == report.workPackage.authorizationServiceDetails.u
        registry == S.globalState.serviceRegistry
    IN  IF ~verifySignature(toSignableObject(report), report.guarantorSignature,
                            report.guarantorPublicKey)
        THEN "bad_signature"
        ELSE IF slot - context.anchorBlockNumber > ANCHOR_MAX_AGE_SLOTS
        THEN "anchor_not_recent"
        ELSE IF /\ serviceId \in DOMAIN registry
                /\ (Len(items) = 0 \/ items[1].programHash # registry[serviceId].codeHash)
        THEN "bad_code_hash"
        ELSE IF ~isGuarantorAssigned(report)
        THEN "wrong_assignment / not_authorized"
        ELSE IF /\ report.coreIndex \in DOMAIN S.globalState.coreStatus
                /\ S.globalState.coreStatus[report.coreIndex] = "engaged"
        THEN "core_engaged"
        ELSE IF report.slot > slot
        THEN "future_report_slot"
        ELSE IF slot - report.slot > REPORT_TIMEOUT_SLOTS
        THEN "report_before_last_rotation"
        ELSE IF Len(report.dependencies) > MAX_DEPENDENCIES
        THEN "too_many_dependencies"
        ELSE IF \E i \in DOMAIN report.dependencies :
                    ~isDependencyMet(S, report.dependencies[i], currentBlockDigests)
        THEN "dependency_missing / segment_root_lookup_invalid"
        ELSE IF report.gasUsed > MAX_WORK_REPORT_GAS
        THEN "too_high_work_report_gas"
        ELSE IF \E i \in DOMAIN items : items[i].gasLimit < MIN_SERVICE_ITEM_GAS
        THEN "service_item_gas_too_low"
        ELSE IF isFinalized(S, generateWorkDigest(report))
        THEN "duplicate_package_in_recent_history"
        ELSE "ok"

(***************************************************************************)
(* processGuaranteeExtrinsic                                               *)
(***************************************************************************)
\* requiredSignatures as it would be if every listed guarantor had to sign.
requiredSignatures_All(report) ==
    Len(report.refinementContext.currentGuarantors)
    + Len(report.refinementContext.previousGuarantors)

requiredSignatures(report) ==
    LET totalGuarantors == Len(report.refinementContext.currentGuarantors)
                           + Len(report.refinementContext.previousGuarantors)
    IN  CeilDiv(totalGuarantors * SUPER_MAJORITY_THRESHOLD_NUMERATOR,
                SUPER_MAJORITY_THRESHOLD_DENOMINATOR)

\* PendingEntry as it would be if a new entry did not record the signature
\* of the Guarantee that creates it.
PendingEntry_Unsigned(report, receivedSignatures, submissionSlot) ==
    [report |-> report, receivedSignatures |-> {},
     submissionSlot |-> submissionSlot]

PendingEntry(report, receivedSignatures, submissionSlot) ==
    [report |-> report, receivedSignatures |-> receivedSignatures,
     submissionSlot |-> submissionSlot]

\* The catch block as it would be if a rejected report were also dropped
\* from the pending pool.
GuaranteeRejected_Evicting(S, report, slot, message) ==
    [S EXCEPT !.rho = MapDelete(@, generateWorkDigest(report)),
              !.psi_B = MapSet(@, generateWorkDigest(report),
                               BadReport(message, {"system_validation"})),
              !.psi_O = ChargeOffender(@, report.guarantorPublicKey, slot)]

\* The catch block: route the digest to psi_B and charge the guarantor.
GuaranteeRejected(S, report, slot, message) ==
    [S EXCEPT !.psi_B = MapSet(@, generateWorkDigest(report),
                               BadReport(message, {"system_validation"})),
              !.psi_O = ChargeOffender(@, report.guarantorPublicKey, slot)]

\* hasSigned as it would be without the duplicate-signature test.
hasSigned_Never(S, digestHash, guarantorPublicKey) == FALSE

\* receivedSignatures.has(report.guarantorPublicKey) on the entry rho holds
\* for the digest, if it holds one.
hasSigned(S, digestHash, guarantorPublicKey) ==
    /\ digestHash \in DOMAIN S.rho
    /\ guarantorPublicKey \in S.rho[digestHash].receivedSignatures

\* EndorsedEntry as it would be if a later Guarantee replaced the pending
\* report and its submission slot with its own.
EndorsedEntry_Overwriting(reportEntry, report, slot) ==
    PendingEntry(report,
                 reportEntry.receivedSignatures \cup {report.guarantorPublicKey}, slot)

\* reportEntry.receivedSignatures.add(report.guarantorPublicKey) on the
\* entry rho holds: its report and submissionSlot stay.
EndorsedEntry(reportEntry, report, slot) ==
    [reportEntry EXCEPT !.receivedSignatures = @ \cup {report.guarantorPublicKey}]

\* The part after validation: merge the endorsement, promote on
\* super-majority, otherwise evict on timeout.  Yields the new state and
\* the value returned.
GuaranteeAccepted(S, report, slot) ==
    LET digestHash == generateWorkDigest(report)
        known == digestHash \in DOMAIN S.rho
        reportEntry ==
            IF ~known
            THEN PendingEntry(report, {report.guarantorPublicKey}, slot)
            ELSE EndorsedEntry(S.rho[digestHash], report, slot)
    IN  IF hasSigned(S, digestHash, report.guarantorPublicKey)
        THEN [state |-> S, ret |-> FALSE]
        ELSE IF Cardinality(reportEntry.receivedSignatures) >= requiredSignatures(report)
        THEN [state |-> [S EXCEPT !.rho = MapDelete(@, digestHash),
                                  !.omega = OmegaSet(@, digestHash, report, "ready")],
              ret |-> TRUE]
        ELSE IF slot - reportEntry.submissionSlot > REPORT_TIMEOUT_SLOTS
        THEN [state |-> [S EXCEPT !.rho = MapDelete(@, digestHash),
                                  !.psi_B = MapSet(@, digestHash,
                                      BadReport("timed_out", {"system_timeout"}))],
              ret |-> FALSE]
        ELSE [state |-> [S EXCEPT !.rho = MapSet(@, digestHash, reportEntry)],
              ret |-> TRUE]

processGuaranteeExtrinsic(S, report, slot, currentBlockDigests) ==
    LET error == validateWorkReport(report, S, slot, currentBlockDigests)
    IN  IF error # "ok"
        THEN [state |-> GuaranteeRejected(S, report, slot, error),
              ret |-> FALSE, error |-> error]
        ELSE [state |-> GuaranteeAccepted(S, report, slot).state,
              ret |-> GuaranteeAccepted(S, report, slot).ret, error |-> "ok"]

\* processGuaranteeExtrinsic of guaranteeProcessor.ts: the same steps
\* around its own validateWorkReport.
processGuaranteeExtrinsicTs(S, report, slot, currentBlockDigests) ==
    LET error == validateWorkReportTs(report, S, slot, currentBlockDigests)
    IN  IF error # "ok"
        THEN [state |-> GuaranteeRejected(S, report, slot, error),
              ret |-> FALSE, error |-> error]
        ELSE [state |-> GuaranteeAccepted(S, report, slot).state,
              ret |-> GuaranteeAccepted(S, report, slot).ret, error |-> "ok"]

(***************************************************************************)
(* processDisputeExtrinsic                                                 *)
(***************************************************************************)
\* The report the dispute is charged to: rho's, overridden by omega's,
\* and xi's only when neither holds the digest.
disputedReport(S, d) ==
    IF OmegaHas(S.omega, d) THEN OmegaGet(S.omega, d).report
    ELSE IF d \in DOMAIN S.rho THEN S.rho[d].report
    ELSE S.xi[d]

DisputeRecorded_ReasonReplaced(badReports, d, disputerPublicKey, reason) ==
    IF d \in DOMAIN badReports
    THEN [badReports EXCEPT ![d] = BadReport(reason, @.disputedBy \cup {disputerPublicKey})]
    ELSE MapSet(badReports, d, BadReport(reason, {disputerPublicKey}))

DisputeRecorded(badReports, d, disputerPublicKey, reason) ==
    IF d \in DOMAIN badReports
    THEN [badReports EXCEPT ![d].disputedBy = @ \cup {disputerPublicKey}]
    ELSE MapSet(badReports, d, BadReport(reason, {disputerPublicKey}))

\* The throw after the three lookups: the first test found a report for
\* the digest, and none of rho, omega, xi gave one.
disputeThrows(S, d) ==
    /\ getReportByDigest(S, d) # {}
    /\ d \notin DOMAIN S.rho
    /\ ~OmegaHas(S.omega, d)
    /\ d \notin DOMAIN S.xi

\* processDisputeExtrinsic as it would be if a dispute without a target
\* were still recorded in psi_B.
processDisputeExtrinsic_RecordUnknown(S, d, disputerPublicKey, reason, slot) ==
    IF getReportByDigest(S, d) = {}
    THEN [S EXCEPT !.psi_B = DisputeRecorded(@, d, disputerPublicKey, reason)]
    ELSE [S EXCEPT
            !.rho = MapDelete(@, d),
            !.omega = OmegaDelete(@, d),
            !.psi_B = DisputeRecorded(@, d, disputerPublicKey, reason),
            !.psi_O = ChargeOffender(@, disputedReport(S, d).guarantorPublicKey, slot)]

\* processDisputeExtrinsic as it would be if a dispute of a report held
\* only in xi were dropped.
processDisputeExtrinsic_LateIgnored(S, d, disputerPublicKey, reason, slot) ==
    IF getReportByDigest(S, d) = {} \/ (d \notin DOMAIN S.rho /\ ~OmegaHas(S.omega, d))
    THEN S
    ELSE [S EXCEPT
            !.rho = MapDelete(@, d),
            !.omega = OmegaDelete(@, d),
            !.psi_B = DisputeRecorded(@, d, disputerPublicKey, reason),
            !.psi_O = ChargeOffender(@, disputedReport(S, d).guarantorPublicKey, slot)]

\* processDisputeExtrinsic as it would be if a disputed report were left
\* in the accumulation queue.
processDisputeExtrinsic_KeepQueued(S, d, disputerPublicKey, reason, slot) ==
    IF getReportByDigest(S, d) = {}
    THEN S
    ELSE [S EXCEPT
            !.rho = MapDelete(@, d),
            !.psi_B = DisputeRecorded(@, d, disputerPublicKey, reason),
            !.psi_O = ChargeOffender(@, disputedReport(S, d).guarantorPublicKey, slot)]

\* processDisputeExtrinsic as it would be if a late dispute also removed
\* the digest from xi.
processDisputeExtrinsic_FromHistory(S, d, disputerPublicKey, reason, slot) ==
    IF getReportByDigest(S, d) = {}
    THEN S
    ELSE [S EXCEPT
            !.rho = MapDelete(@, d),
            !.omega = OmegaDelete(@, d),
            !.xi = MapDelete(@, d),
            !.psi_B = DisputeRecorded(@, d, disputerPublicKey, reason),
            !.psi_O = ChargeOffender(@, disputedReport(S, d).guarantorPublicKey, slot)]

processDisputeExtrinsic(S, d, disputerPublicKey, reason, slot) ==
    IF getReportByDigest(S, d) = {}
    THEN S
    ELSE [S EXCEPT
            !.rho = MapDelete(@, d),
            !.omega = OmegaDelete(@, d),
            !.psi_B = DisputeRecorded(@, d, disputerPublicKey, reason),
            !.psi_O = ChargeOffender(@, disputedReport(S, d).guarantorPublicKey, slot)]

(***************************************************************************)
(* processAssuranceExtrinsic: logs, and changes nothing.                   *)
(***************************************************************************)
\* processAssuranceExtrinsic as it would be if an affirmation withdrew the
\* psi_B record of the report it names.
processAssuranceExtrinsic_Tilting(S, assuranceData, slot) ==
    [S EXCEPT !.psi_B = MapDelete(@, assuranceData.reportHash)]

processAssuranceExtrinsic(S, assuranceData, slot) == S

(***************************************************************************)
(* simulatePsiAPVM: the delta of one Work-Item, or the failure.  A delta   *)
(* names the sections it carries in "has".                                 *)
(***************************************************************************)
Delta(has, accounts, data, log) ==
    [has |-> has, accounts |-> accounts, data |-> data, log |-> log]

PvmOk(delta) == [ok |-> TRUE, delta |-> delta, message |-> "ok"]

PvmFailed(message) ==
    [ok |-> FALSE, delta |-> Delta({}, EmptyMap, EmptyMap, <<>>), message |-> message]

balanceOf(accounts, a) == IF a \in DOMAIN accounts THEN accounts[a].balance ELSE 0

gasConsumed(workItem) ==
    IF workItem.programHash = "0xtransfer" THEN GAS_TRANSFER
    ELSE IF workItem.programHash = "0xupdateData" THEN GAS_UPDATE_DATA
    ELSE GAS_DEFAULT

\* programDelta as it would be if a transfer debited the sender and did
\* not credit the receiver.
programDelta_DebitOnly(workItem, gs) ==
    LET in == workItem.inputData
    IN  IF workItem.programHash = "0xtransfer"
        THEN Delta({"accounts"},
                   MapSet(gs.accounts, in.from,
                          Account(balanceOf(gs.accounts, in.from) - in.amount)),
                   EmptyMap, <<>>)
        ELSE IF workItem.programHash = "0xupdateData"
        THEN Delta({"data"}, EmptyMap, MapSet(gs.data, in.key, in.value), <<>>)
        ELSE Delta({"log"}, EmptyMap, EmptyMap, Append(gs.log, workItem.programHash))

programDelta(workItem, gs) ==
    LET in == workItem.inputData
    IN  IF workItem.programHash = "0xtransfer"
        THEN Delta({"accounts"},
                   MapSet(MapSet(gs.accounts, in.from,
                                 Account(balanceOf(gs.accounts, in.from) - in.amount)),
                          in.to, Account(balanceOf(gs.accounts, in.to) + in.amount)),
                   EmptyMap, <<>>)
        ELSE IF workItem.programHash = "0xupdateData"
        THEN Delta({"data"}, EmptyMap, MapSet(gs.data, in.key, in.value), <<>>)
        ELSE Delta({"log"}, EmptyMap, EmptyMap, Append(gs.log, workItem.programHash))

\* The message of the PVMExecutionError that the catch block of
\* simulatePsiAPVM throws in place of the error it caught.
PVMExecutionError(workItem, message) ==
    "Psi_A PVM execution failed for Work-Item " \o workItem.id \o ": " \o message

GasLimitExceeded(workItem) ==
    "Gas limit exceeded for Work-Item " \o workItem.id
        \o ". Consumed: " \o ToString(gasConsumed(workItem))
        \o ", Limit: " \o ToString(workItem.gasLimit)

simulatePsiAPVM(workItem, gs) ==
    LET in == workItem.inputData
    IN  IF /\ workItem.programHash = "0xtransfer"
           /\ ~(in.from \in DOMAIN gs.accounts /\ gs.accounts[in.from].balance >= in.amount)
        THEN PvmFailed(PVMExecutionError(workItem,
                 "Insufficient balance or invalid accounts for transfer."))
        ELSE IF gasConsumed(workItem) > workItem.gasLimit
        THEN PvmFailed(PVMExecutionError(workItem, GasLimitExceeded(workItem)))
        ELSE PvmOk(programDelta(workItem, gs))

(***************************************************************************)
(* applyDelta (stateIntegrator): accounts merged by key, data              *)
(* shallow-merged, log appended; sections the delta does not name are      *)
(* kept.                                                                   *)
(***************************************************************************)
MergeByKey(old, new) ==
    [k \in DOMAIN old \cup DOMAIN new |-> IF k \in DOMAIN new THEN new[k] ELSE old[k]]

applyDelta(gs, delta) ==
    [gs EXCEPT
        !.accounts = IF "accounts" \in delta.has THEN MergeByKey(@, delta.accounts) ELSE @,
        !.data = IF "data" \in delta.has THEN MergeByKey(@, delta.data) ELSE @,
        !.log = IF "log" \in delta.has THEN @ \o delta.log ELSE @]

(***************************************************************************)
(* topologicalSort (the Q function): Kahn's algorithm over the entries of  *)
(* omega, in the iteration order of the JS Maps and Sets it builds.        *)
(***************************************************************************)
\* Dependents as it would be if the build loop added no edge.
Dependents_None(w, dep) == <<>>

\* graph.get(dep): the dependents of dep, a Set filled while iterating
\* omega, so in omega's order and each dependent once.
Dependents(w, dep) ==
    SelectSeq(OmegaKeys(w),
              LAMBDA d : Includes(OmegaGet(w, d).report.dependencies, dep))

\* inDegree after the build loop: one per entry of the dependencies list
\* that is a key of omega.
InDegree(w) ==
    [d \in Range(OmegaKeys(w)) |->
        CountIn(OmegaGet(w, d).report.dependencies, Range(OmegaKeys(w)))]

\* The inner for-loop: decrement each neighbour, push it when it reaches 0.
RECURSIVE RelaxNeighbors(_, _, _)
RelaxNeighbors(neighbors, inDegree, queue) ==
    IF neighbors = <<>> THEN [inDegree |-> inDegree, queue |-> queue]
    ELSE LET n == Head(neighbors)
             updated == [inDegree EXCEPT ![n] = @ - 1]
         IN  RelaxNeighbors(Tail(neighbors), updated,
                            IF updated[n] = 0 THEN Append(queue, n) ELSE queue)

\* The while-loop over the queue.
RECURSIVE KahnLoop(_, _, _, _, _)
KahnLoop(w, queue, head, inDegree, sortedOrder) ==
    IF head > Len(queue) THEN sortedOrder
    ELSE LET currentDigest == queue[head]
             r == RelaxNeighbors(Dependents(w, currentDigest), inDegree, queue)
         IN  KahnLoop(w, r.queue, head + 1, r.inDegree,
                      Append(sortedOrder, currentDigest))

\* InitialQueue as it would be if every key were pushed, whatever its
\* in-degree.
InitialQueue_All(w) == OmegaKeys(w)

\* The initial queue: the keys of in-degree 0, in omega's order.
InitialQueue(w) == SelectSeq(OmegaKeys(w), LAMBDA d : InDegree(w)[d] = 0)

\* topologicalSort as it would be if it returned the keys of omega as they
\* are, unresolved ones included.
topologicalSort_Keys(w) == OmegaKeys(w)

topologicalSort(w) == KahnLoop(w, InitialQueue(w), 1, InDegree(w), <<>>)

(***************************************************************************)
(* processAccumulationQueue                                                *)
(***************************************************************************)
\* The for-loop over the Work-Items of one report: globalState is assigned
\* after every item; a failure leaves the loop with the state as it is.
RECURSIVE RunItems(_, _, _)
RunItems(workItems, gs, index) ==
    IF index > Len(workItems)
    THEN [ok |-> TRUE, globalState |-> gs, failedItem |-> 0, message |-> "ok"]
    ELSE LET r == simulatePsiAPVM(workItems[index], gs)
         IN  IF r.ok
             THEN RunItems(workItems, applyDelta(gs, r.delta), index + 1)
             ELSE [ok |-> FALSE, globalState |-> gs, failedItem |-> index,
                   message |-> r.message]

\* AccumulateReport as it would be if a failed report were dropped from
\* omega and its guarantor charged without a record in psi_B.
AccumulateReport_Unrecorded(S, digestHash, slot) ==
    LET report == OmegaGet(S.omega, digestHash).report
        run == RunItems(report.workPackage.workItems, S.globalState, 1)
    IN  IF run.ok
        THEN [S EXCEPT !.globalState = run.globalState,
                       !.omega = OmegaDelete(@, digestHash),
                       !.xi = MapSet(@, digestHash, report)]
        ELSE [S EXCEPT !.globalState = run.globalState,
                       !.omega = OmegaDelete(@, digestHash),
                       !.psi_O = ChargeOffender(@, report.guarantorPublicKey, slot)]

\* One report of the sweep: to xi on success, to psi_B and psi_O on failure.
AccumulateReport(S, digestHash, slot) ==
    LET report == OmegaGet(S.omega, digestHash).report
        run == RunItems(report.workPackage.workItems, S.globalState, 1)
    IN  IF run.ok
        THEN [S EXCEPT !.globalState = run.globalState,
                       !.omega = OmegaDelete(@, digestHash),
                       !.xi = MapSet(@, digestHash, report)]
        ELSE [S EXCEPT !.globalState = run.globalState,
                       !.omega = OmegaDelete(@, digestHash),
                       !.psi_B = MapSet(@, digestHash,
                                   BadReport("accumulation_failed: " \o run.message,
                                             {"system_accumulation"})),
                       !.psi_O = ChargeOffender(@, report.guarantorPublicKey, slot)]

\* What the sweep did with one report, kept for the properties.
Executed(S, T, digestHash) ==
    LET run == RunItems(OmegaGet(S.omega, digestHash).report.workPackage.workItems,
                        S.globalState, 1)
    IN  [digest |-> digestHash, ok |-> run.ok, failedItem |-> run.failedItem,
         before |-> S.globalState, after |-> T.globalState]

\* The for-loop over the sorted digests; entries that are gone or not
\* ready are skipped.
RECURSIVE AccumulationLoop(_, _, _, _)
AccumulationLoop(S, order, slot, exec) ==
    IF order = <<>> THEN [state |-> S, exec |-> exec]
    ELSE LET digestHash == Head(order)
         IN  IF ~OmegaHas(S.omega, digestHash)
                \/ OmegaGet(S.omega, digestHash).status # "ready"
             THEN AccumulationLoop(S, Tail(order), slot, exec)
             ELSE LET T == AccumulateReport(S, digestHash, slot)
                  IN  AccumulationLoop(T, Tail(order), slot,
                                       Append(exec, Executed(S, T, digestHash)))

\* processAccumulationQueue as it would be if the sweep also cleared the
\* pending pool.
processAccumulationQueue_DrainingPending(S, slot) ==
    LET r == AccumulationLoop(S, topologicalSort(S.omega), slot, <<>>)
    IN  [state |-> [r.state EXCEPT !.rho = EmptyMap], exec |-> r.exec]

processAccumulationQueue(S, slot) ==
    AccumulationLoop(S, topologicalSort(S.omega), slot, <<>>)

(***************************************************************************)
(* processAccumulationQueue of queueHandler.ts: after every Work-Item the  *)
(* global state is rebuilt from the accounts, coreStatus and               *)
(* serviceRegistry of what applyDelta returned.                            *)
(***************************************************************************)
\* The object literal assigned to onchainState.globalState: it has no data
\* and no log, which the PVM mock then reads as empty.
RebuiltGlobalState(updatedState) ==
    [updatedState EXCEPT !.data = EmptyMap, !.log = <<>>]

RECURSIVE RunItemsTs(_, _, _)
RunItemsTs(workItems, gs, index) ==
    IF index > Len(workItems)
    THEN [ok |-> TRUE, globalState |-> gs, failedItem |-> 0, message |-> "ok"]
    ELSE LET r == simulatePsiAPVM(workItems[index], gs)
         IN  IF r.ok
             THEN RunItemsTs(workItems, RebuiltGlobalState(applyDelta(gs, r.delta)),
                             index + 1)
             ELSE [ok |-> FALSE, globalState |-> gs, failedItem |-> index,
                   message |-> r.message]

AccumulateReportTs(S, digestHash, slot) ==
    LET report == OmegaGet(S.omega, digestHash).report
        run == RunItemsTs(report.workPackage.workItems, S.globalState, 1)
    IN  IF run.ok
        THEN [S EXCEPT !.globalState = run.globalState,
                       !.omega = OmegaDelete(@, digestHash),
                       !.xi = MapSet(@, digestHash, report)]
        ELSE [S EXCEPT !.globalState = run.globalState,
                       !.omega = OmegaDelete(@, digestHash),
                       !.psi_B = MapSet(@, digestHash,
                                   BadReport("accumulation_failed: " \o run.message,
                                             {"system_accumulation"})),
                       !.psi_O = ChargeOffender(@, report.guarantorPublicKey, slot)]

ExecutedTs(S, T, digestHash) ==
    LET run == RunItemsTs(OmegaGet(S.omega, digestHash).report.workPackage.workItems,
                          S.globalState, 1)
    IN  [digest |-> digestHash, ok |-> run.ok, failedItem |-> run.failedItem,
         before |-> S.globalState, after |-> T.globalState]

RECURSIVE AccumulationLoopTs(_, _, _, _)
AccumulationLoopTs(S, order, slot, exec) ==
    IF order = <<>> THEN [state |-> S, exec |-> exec]
    ELSE LET digestHash == Head(order)
         IN  IF ~OmegaHas(S.omega, digestHash)
                \/ OmegaGet(S.omega, digestHash).status # "ready"
             THEN AccumulationLoopTs(S, Tail(order), slot, exec)
             ELSE LET T == AccumulateReportTs(S, digestHash, slot)
                  IN  AccumulationLoopTs(T, Tail(order), slot,
                                         Append(exec, ExecutedTs(S, T, digestHash)))

processAccumulationQueueTs(S, slot) ==
    AccumulationLoopTs(S, topologicalSort(S.omega), slot, <<>>)

(***************************************************************************)
(* The state machine.  block counts the blocks so far; every call of a     *)
(* block gets the block's slot.  last records the latest call: what it was *)
(* given, what it returned, and for a sweep the sorted order and the       *)
(* reports it executed.                                                    *)
(***************************************************************************)
SlotOf(b) == 100 + 51 * b

currentSlot == SlotOf(block)

Call(op, digest, key, ret, error, sorted, exec) ==
    [op |-> op, digest |-> digest, key |-> key, ret |-> ret, error |-> error,
     sorted |-> sorted, exec |-> exec]

RECURSIVE SumCounts(_, _)
SumCounts(offenders, keys) ==
    IF keys = {} THEN 0
    ELSE LET g == CHOOSE x \in keys : TRUE
         IN  offenders[g].disputeCount + SumCounts(offenders, keys \ {g})

WithinCaps(S) == SumCounts(S.psi_O, DOMAIN S.psi_O) <= MaxDisputes

Commit(S) ==
    /\ calls < MaxCalls
    /\ WithinCaps(S)
    /\ calls' = calls + 1
    /\ rho' = S.rho
    /\ omega' = S.omega
    /\ xi' = S.xi
    /\ psi_B' = S.psi_B
    /\ psi_O' = S.psi_O
    /\ globalState' = S.globalState

Init ==
    /\ rho = EmptyMap
    /\ omega = <<>>
    /\ xi = EmptyMap
    /\ psi_B = EmptyMap
    /\ psi_O = EmptyMap
    /\ globalState = GenesisGlobalState
    /\ block = 0
    /\ calls = 0
    /\ last = Call("init", 0, "none", "void", "ok", <<>>, <<>>)

Guarantee(report, currentBlockDigests) ==
    LET r == processGuaranteeExtrinsic(State, report, currentSlot, currentBlockDigests)
    IN  /\ Commit(r.state)
        /\ last' = Call("guarantee", generateWorkDigest(report),
                        report.guarantorPublicKey,
                        IF r.ret THEN "true" ELSE "false", r.error, <<>>, <<>>)
        /\ UNCHANGED block

Assurance(reportHash, affirmingParty) ==
    /\ Commit(processAssuranceExtrinsic(State,
                  [reportHash |-> reportHash, affirmingParty |-> affirmingParty],
                  currentSlot))
    /\ last' = Call("assurance", 0, "none", "void", "ok", <<>>, <<>>)
    /\ UNCHANGED block

Dispute(disputedDigestHash, disputerPublicKey, reason) ==
    /\ Commit(processDisputeExtrinsic(State, disputedDigestHash, disputerPublicKey,
                                      reason, currentSlot))
    /\ last' = Call("dispute", disputedDigestHash, disputerPublicKey, "void",
                    IF disputeThrows(State, disputedDigestHash)
                    THEN "not_found" ELSE "ok",
                    <<>>, <<>>)
    /\ UNCHANGED block

Accumulate ==
    LET r == processAccumulationQueue(State, currentSlot)
    IN  /\ Commit(r.state)
        /\ last' = Call("accumulate", 0, "none", "void", "ok",
                        topologicalSort(omega), r.exec)
        /\ UNCHANGED block

NextBlock ==
    /\ block < MaxBlocks
    /\ block' = block + 1
    /\ last' = Call("block", 0, "none", "void", "ok", <<>>, <<>>)
    /\ UNCHANGED <<rho, omega, xi, psi_B, psi_O, globalState, calls>>

Next ==
    \/ \E report \in Reports, cbd \in BlockDigestChoices : Guarantee(report, cbd)
    \/ \E d \in Digests, p \in Guarantors : Assurance(d, p)
    \/ \E d \in Digests, p \in Disputers : Dispute(d, p, "bad_output")
    \/ Accumulate
    \/ NextBlock

Spec == Init /\ [][Next]_vars

(***************************************************************************)
(* A second specification: the state is hydrated from a pre_state          *)
(* (run_jam_vectors.js, initializeState) whose omega is any queue over the *)
(* digests of the model, each report with any short dependencies list over *)
(* the other digests; one call is then processed.                          *)
(***************************************************************************)
QueueDependencies(d) ==
    LET others == Digests \ {d}
    IN  {<<>>} \cup {<<x>> : x \in others} \cup {<<x, y>> : x, y \in others}

\* The entry of digest d: the content of digest d, endorsed by g1, with
\* the given dependencies.
HydratedEntry(d, deps) ==
    [digest |-> d,
     report |-> [SignedReport(CHOOSE i \in DOMAIN HexOf : HexOf[i] = d, "g1")
                    EXCEPT !.dependencies = deps],
     status |-> "ready"]

Orderings(K) ==
    {s \in [1..Cardinality(K) -> K] : \A i, j \in DOMAIN s : s[i] = s[j] => i = j}

Queues ==
    UNION {
        {[i \in DOMAIN s |-> HydratedEntry(s[i], f[s[i]])] :
            s \in Orderings(K),
            f \in {g \in [K -> UNION {QueueDependencies(d) : d \in Digests}] :
                      \A d \in K : g[d] \in QueueDependencies(d)}} :
        K \in SUBSET Digests}

InitQueue ==
    /\ omega \in Queues
    /\ rho = EmptyMap
    /\ xi = EmptyMap
    /\ psi_B = EmptyMap
    /\ psi_O = EmptyMap
    /\ globalState = GenesisGlobalState
    /\ block = 0
    /\ calls = MaxCalls - 1
    /\ last = Call("init", 0, "none", "void", "ok", <<>>, <<>>)

SpecQueue == InitQueue /\ [][Next]_vars

(***************************************************************************)
(* A third specification, for the validation checks: the state is hydrated *)
(* from a pre_state with core 1 engaged and a history that is empty or     *)
(* holds some variants; one Guarantee of a variant is then processed, at   *)
(* either slot, by the build of guaranteeProcessor.js or by the build of   *)
(* guaranteeProcessor.ts.                                                  *)
(***************************************************************************)
ValidationGlobalState ==
    [GenesisGlobalState EXCEPT
        !.coreStatus = [c \in {0, 1} |-> IF c = 0 THEN "available" ELSE "engaged"]]

\* The history of the pre_state: the variants of slot 100 and epoch 1 with
\* at most one fault, as g1 endorsed them.
FinalizedChoices ==
    {c \in VariantChoices : c.slot = 100 /\ c.epoch = 1 /\ Cardinality(c.faults) <= 1}

FinalizedVariants ==
    LET finalized(c) == WorkReport(VariantContent(c), "g1",
                                   signMessage(VariantContent(c), "g1"))
    IN  [d \in {sha256(VariantContent(c)) : c \in FinalizedChoices} |->
            finalized(CHOOSE c \in FinalizedChoices : sha256(VariantContent(c)) = d)]

InitValidate ==
    /\ rho = EmptyMap
    /\ omega = <<>>
    /\ xi \in {EmptyMap, FinalizedVariants}
    /\ psi_B = EmptyMap
    /\ psi_O = EmptyMap
    /\ globalState = ValidationGlobalState
    /\ block = 0
    /\ calls = MaxCalls - 1
    /\ last = Call("init", 0, "none", "void", "ok", <<>>, <<>>)

GuaranteeTs(report, currentBlockDigests) ==
    LET r == processGuaranteeExtrinsicTs(State, report, currentSlot, currentBlockDigests)
    IN  /\ Commit(r.state)
        /\ last' = Call("guarantee_ts", generateWorkDigest(report),
                        report.guarantorPublicKey,
                        IF r.ret THEN "true" ELSE "false", r.error, <<>>, <<>>)
        /\ UNCHANGED block

NextValidate ==
    \/ /\ calls < MaxCalls
       /\ \E report \in ValidationReports, cbd \in BlockDigestChoices :
             Guarantee(report, cbd)
    \/ /\ calls < MaxCalls
       /\ \E report \in ValidationReports, cbd \in BlockDigestChoices :
             GuaranteeTs(report, cbd)
    \/ NextBlock

SpecValidate == InitValidate /\ [][NextValidate]_vars

(***************************************************************************)
(* A fourth specification, for the pending pool over time: from the empty  *)
(* state, Guarantees of the pending report and disputes, over one block    *)
(* more than the first specification so that a report can be pending for   *)
(* more than REPORT_TIMEOUT_SLOTS slots.                                   *)
(***************************************************************************)
NextBlockPending ==
    /\ block < MaxBlocks + 1
    /\ block' = block + 1
    /\ last' = Call("block", 0, "none", "void", "ok", <<>>, <<>>)
    /\ UNCHANGED <<rho, omega, xi, psi_B, psi_O, globalState, calls>>

NextPending ==
    \/ \E report \in PendingReports : Guarantee(report, {})
    \/ \E p \in Disputers : Dispute(sha256(PendingContent), p, "bad_output")
    \/ Accumulate
    \/ NextBlockPending

SpecPending == Init /\ [][NextPending]_vars

(***************************************************************************)
(* A fifth specification, for the accumulation sweep: from the empty       *)
(* state, Guarantees of the sweep reports and sweeps.                      *)
(***************************************************************************)
NextPvm ==
    \/ \E report \in PvmReports, cbd \in {{}, {PvmHexOf[5]}} : Guarantee(report, cbd)
    \/ Accumulate
    \/ NextBlock

SpecPvm == Init /\ [][NextPvm]_vars

(***************************************************************************)
(* A sixth specification, for the sweep of the build of queueHandler.ts:   *)
(* the state is hydrated from a pre_state whose omega is any queue of      *)
(* sweep reports; sweeps are then processed.                               *)
(***************************************************************************)
PvmQueues ==
    UNION {
        {[i \in DOMAIN s |->
             [digest |-> s[i],
              report |-> CHOOSE r \in PvmReports :
                            r.guarantorPublicKey = "g1" /\ generateWorkDigest(r) = s[i],
              status |-> "ready"]] : s \in Orderings(K)} :
        K \in SUBSET PvmDigests}

InitPvmTs ==
    /\ omega \in PvmQueues
    /\ rho = EmptyMap
    /\ xi = EmptyMap
    /\ psi_B = EmptyMap
    /\ psi_O = EmptyMap
    /\ globalState = GenesisGlobalState
    /\ block = 0
    /\ calls = MaxCalls - 2
    /\ last = Call("init", 0, "none", "void", "ok", <<>>, <<>>)

AccumulateTs ==
    LET r == processAccumulationQueueTs(State, currentSlot)
    IN  /\ Commit(r.state)
        /\ last' = Call("accumulate_ts", 0, "none", "void", "ok",
                        topologicalSort(omega), r.exec)
        /\ UNCHANGED block

NextPvmTs ==
    \/ AccumulateTs
    \/ NextBlock

SpecPvmTs == InitPvmTs /\ [][NextPvmTs]_vars

(***************************************************************************)
(* A specification of the PVM mock alone: globalState.accounts is any      *)
(* pair of small non-negative balances, and each step executes one         *)
(* 0xtransfer Work-Item (simulatePsiAPVM) and, when it does not throw,     *)
(* applies the delta it returns, as the sweep does for each item.          *)
(***************************************************************************)
TransferBalances == 0..3

TransferAmounts == -2..2

TransferParties == {"0xAlice", "0xBob", "0xCarol"}

TransferGasLimits == {30, 60}

TransferItems ==
    {WorkItem("wi-x", "0xtransfer", TransferInput(from, to, amount), gasLimit) :
        from \in TransferParties, to \in TransferParties,
        amount \in TransferAmounts, gasLimit \in TransferGasLimits}

InitTransfer ==
    /\ rho = EmptyMap
    /\ omega = <<>>
    /\ xi = EmptyMap
    /\ psi_B = EmptyMap
    /\ psi_O = EmptyMap
    /\ \E a \in TransferBalances, b \in TransferBalances :
          globalState = [GenesisGlobalState EXCEPT
                            !.accounts = [x \in {"0xAlice", "0xBob"} |->
                                IF x = "0xAlice" THEN Account(a) ELSE Account(b)]]
    /\ block = 0
    /\ calls = MaxCalls - 2
    /\ last = [op |-> "init", item |-> WorkItem("none", "none", "none", 0),
               ok |-> FALSE, message |-> "ok",
               delta |-> Delta({}, EmptyMap, EmptyMap, <<>>)]

ExecuteItem(workItem) ==
    LET r == simulatePsiAPVM(workItem, globalState)
    IN  /\ calls < MaxCalls
        /\ calls' = calls + 1
        /\ globalState' = IF r.ok THEN applyDelta(globalState, r.delta)
                          ELSE globalState
        /\ last' = [op |-> "pvm", item |-> workItem, ok |-> r.ok,
                    message |-> r.message, delta |-> r.delta]
        /\ UNCHANGED <<rho, omega, xi, psi_B, psi_O, block>>

NextTransfer == \E workItem \in TransferItems : ExecuteItem(workItem)

SpecTransfer == InitTransfer /\ [][NextTransfer]_vars

(***************************************************************************)
(* Properties.                                                             *)
(***************************************************************************)
\* The buckets among rho, omega, xi that hold digest d.
BucketsOf(d) ==
    {b \in {"rho", "omega", "xi"} :
        \/ b = "rho" /\ d \in DOMAIN rho
        \/ b = "omega" /\ OmegaHas(omega, d)
        \/ b = "xi" /\ d \in DOMAIN xi}

\* The number of guarantors listed for the content of digest d.
ListedGuarantors(d) ==
    LET c == Contents[CHOOSE i \in DOMAIN Contents : HexOf[i] = d]
    IN  Len(c.refinementContext.currentGuarantors)
        + Len(c.refinementContext.previousGuarantors)

StateUnchanged == UNCHANGED <<rho, omega, xi, psi_B, psi_O, globalState>>

\* C1: bucket disjointness.  After any sequence of Guarantee, Assurance,
\* Dispute and Accumulation calls from the empty state, no digest is a key
\* of more than one of rho, omega, xi.
C1_BucketDisjointness == \A d \in Digests : Cardinality(BucketsOf(d)) <= 1

\* C2: history immutability.  Once d is a key of xi, no call removes it or
\* replaces the report stored at xi[d].
C2_HistoryImmutable ==
    [][\A d \in DOMAIN xi : d \in DOMAIN xi' /\ xi'[d] = xi[d]]_vars

\* A digest of xi has been disputed: the late dispute has recorded it in
\* psi_B and it is still in xi.
C2_Witness ==
    /\ last.op = "dispute"
    /\ last.digest \in DOMAIN xi
    /\ last.digest \in DOMAIN psi_B

\* C3: promotion threshold.  A Guarantee call that passes validation moves
\* its digest from rho to omega (status ready) exactly when, with the
\* call's signature merged, the signatures number at least
\* ceil(2/3 of the listed guarantors): 3 * |signatures| >= 2 * N.  No entry
\* stays in rho with that many signatures.
C3_PromotionThreshold ==
    [][/\ (last'.op = "guarantee" /\ last'.error = "ok") =>
            LET d == last'.digest
                merged == (IF d \in DOMAIN rho THEN rho[d].receivedSignatures ELSE {})
                          \cup {last'.key}
                moved == /\ d \notin DOMAIN rho'
                         /\ OmegaHas(omega', d)
                         /\ OmegaGet(omega', d).status = "ready"
                entered == ~OmegaHas(omega, d) /\ OmegaHas(omega', d)
                enough == 3 * Cardinality(merged) >= 2 * ListedGuarantors(d)
            IN  /\ moved <=> enough
                /\ entered => enough
       /\ \A d \in DOMAIN rho' :
            3 * Cardinality(rho'[d].receivedSignatures) < 2 * ListedGuarantors(d)
      ]_vars

\* The second of three guarantors has endorsed a pending report, and the
\* report is now in omega and no longer in rho.
C3_Witness ==
    /\ last.op = "guarantee" /\ last.error = "ok" /\ last.ret = "true"
    /\ ListedGuarantors(last.digest) = 3
    /\ OmegaHas(omega, last.digest)
    /\ last.digest \notin DOMAIN rho

\* C4 as stated: when rho[d] already holds g's signature, another Guarantee
\* with digest d and guarantorPublicKey g returns false and changes nothing.
C4_IdempotentEndorsement ==
    [][(/\ last'.op = "guarantee"
        /\ last'.digest \in DOMAIN rho
        /\ last'.key \in rho[last'.digest].receivedSignatures)
       => (last'.ret = "false" /\ StateUnchanged)]_vars

\* C4, amended: when rho[d] already holds g's signature, another Guarantee
\* with digest d and guarantorPublicKey g returns false and changes none of
\* rho, omega, xi, globalState; it changes psi_B and psi_O only when the
\* report fails validation.
C4_RepeatedEndorsement ==
    [][(/\ last'.op = "guarantee"
        /\ last'.digest \in DOMAIN rho
        /\ last'.key \in rho[last'.digest].receivedSignatures)
       => /\ last'.ret = "false"
          /\ UNCHANGED <<rho, omega, xi, globalState>>
          /\ last'.error = "ok" => UNCHANGED <<psi_B, psi_O>>]_vars

\* A valid Guarantee has just been answered false for a guarantor whose
\* signature rho holds.
C4_Witness ==
    /\ last.op = "guarantee" /\ last.error = "ok" /\ last.ret = "false"
    /\ last.digest \in DOMAIN rho
    /\ last.key \in rho[last.digest].receivedSignatures

\* C5: monotone psi_O.  No call removes an entry of psi_O or lowers its
\* disputeCount.
C5_MonotoneOffenders ==
    [][\A g \in DOMAIN psi_O :
          /\ g \in DOMAIN psi_O'
          /\ psi_O'[g].disputeCount >= psi_O[g].disputeCount]_vars

\* A guarantor with a record in psi_O has been charged again.
C5_Witness == \E g \in DOMAIN psi_O : psi_O[g].disputeCount >= 2

\* C6: report-level atomicity.  When a report fails on its k-th Work-Item,
\* k > 1, globalState after the report is routed to psi_B equals
\* globalState before the report's first Work-Item.
C6_ReportAtomicity ==
    \A i \in DOMAIN last.exec :
        (~last.exec[i].ok /\ last.exec[i].failedItem > 1)
            => last.exec[i].after = last.exec[i].before

\* The dependencies of omega's entry d that are themselves keys of omega.
IntraDeps(w, d) ==
    Range(OmegaGet(w, d).report.dependencies) \cap Range(OmegaKeys(w))

\* The tie-break of section 4.5 on a returned order: every digest of the
\* order is the smallest of those in the order that were eligible when it
\* was emitted (all their dependencies within omega emitted before).
SmallestEligibleFirst(w, seq) ==
    \A i \in DOMAIN seq :
        LET emitted == {seq[k] : k \in 1..(i - 1)}
            eligible == {d \in Range(seq) \ emitted : IntraDeps(w, d) \subseteq emitted}
        IN  \A e \in eligible : seq[i] <= e

\* The same entries in another insertion order.
Reinsertions(w) ==
    {[i \in DOMAIN w |-> w[p[i]]] : p \in Orderings(DOMAIN w)}

\* What a sweep leaves behind, apart from the order of what stays in omega.
SweepResult(w) ==
    LET T == processAccumulationQueue([State EXCEPT !.omega = w], currentSlot).state
    IN  [xi |-> T.xi, psi_B |-> T.psi_B, psi_O |-> T.psi_O,
         globalState |-> T.globalState, omega |-> Range(T.omega)]

\* C7: deterministic accumulation order.  The order topologicalSort
\* returns, and the state processAccumulationQueue produces, do not depend
\* on the order in which omega's entries were inserted; among digests that
\* are eligible together the smaller digest comes first.
C7_DeterministicOrder ==
    /\ SmallestEligibleFirst(omega, topologicalSort(omega))
    /\ \A w \in Reinsertions(omega) :
          /\ topologicalSort(w) = topologicalSort(omega)
          /\ SweepResult(w) = SweepResult(omega)

\* The digests d depends on within omega, directly or transitively.
RECURSIVE DependsOn(_, _, _)
DependsOn(w, found, frontier) ==
    LET next == UNION {IntraDeps(w, d) : d \in frontier} \ found
    IN  IF next = {} THEN found ELSE DependsOn(w, found \cup next, next)

OnCycle(w, d) == d \in DependsOn(w, {}, {d})

\* The positions of digest d in a sequence of digests.
PositionsOf(seq, d) == {i \in DOMAIN seq : seq[i] = d}

DependenciesFirst(w, seq) ==
    \A j \in DOMAIN seq : \A dep \in IntraDeps(w, seq[j]) :
        \E i \in 1..(j - 1) : seq[i] = dep

ExecutedDigests(exec) == [i \in DOMAIN exec |-> exec[i].digest]

\* C8: dependency order.  In topologicalSort(omega) every dependency of a
\* digest that is itself a key of omega comes before the digest, and
\* processAccumulationQueue executes the reports in such an order.
C8_DependencyOrder ==
    [][/\ DependenciesFirst(omega, topologicalSort(omega))
       /\ last'.op = "accumulate" =>
            DependenciesFirst(omega, ExecutedDigests(last'.exec))]_vars

\* A sweep has executed a report after the report it depends on, both
\* taken from omega.
C8_Witness ==
    /\ last.op = "accumulate"
    /\ \E i, j \in DOMAIN last.exec :
          /\ i < j
          /\ last.exec[j].digest \in DOMAIN xi
          /\ last.exec[i].digest \in Range(xi[last.exec[j].digest].dependencies)

\* C9: topologicalSort omits a digest of omega only when the digest is on a
\* dependency cycle among the keys of omega or depends on one; for an
\* acyclic omega, duplicate dependencies included, it returns every key.
C9_OmitsOnlyCycles ==
    \A d \in Range(OmegaKeys(omega)) :
        d \notin Range(topologicalSort(omega))
            => \/ OnCycle(omega, d)
               \/ \E e \in DependsOn(omega, {}, {d}) : OnCycle(omega, e)

\* C10: cyclic dependencies.  A sweep leaves every report that is on a
\* dependency cycle in omega, ready and as it was, executes none of its
\* Work-Items and records nothing against it in psi_B; psi_O is charged
\* once for each executed report that failed and for nothing else.  A
\* report leaves omega only by finalization to xi, by a dispute, or by a
\* failed accumulation.
C10_CyclesStay ==
    [][/\ last'.op = "accumulate" =>
            /\ \A d \in Range(OmegaKeys(omega)) :
                  OnCycle(omega, d) =>
                      /\ OmegaHas(omega', d)
                      /\ OmegaGet(omega', d) = OmegaGet(omega, d)
                      /\ OmegaGet(omega', d).status = "ready"
                      /\ PositionsOf(ExecutedDigests(last'.exec), d) = {}
                      /\ d \in DOMAIN psi_B' => (d \in DOMAIN psi_B /\ psi_B'[d] = psi_B[d])
            /\ SumCounts(psi_O', DOMAIN psi_O') - SumCounts(psi_O, DOMAIN psi_O)
                  = Cardinality({i \in DOMAIN last'.exec : ~last'.exec[i].ok})
       /\ \A d \in Range(OmegaKeys(omega)) :
            ~OmegaHas(omega', d) =>
                \/ /\ last'.op = "accumulate"
                   /\ \E i \in DOMAIN last'.exec :
                         /\ last'.exec[i].digest = d
                         /\ IF last'.exec[i].ok
                            THEN d \in DOMAIN xi'
                            ELSE /\ d \in DOMAIN psi_B'
                                 /\ psi_B'[d].disputedBy = {"system_accumulation"}
                \/ /\ last'.op = "dispute"
                   /\ last'.digest = d
                   /\ d \in DOMAIN psi_B']_vars

\* A sweep has run over a queue with a dependency cycle: it executed
\* another report, and the reports of the cycle are still in omega.
C10_Witness ==
    /\ last.op = "accumulate"
    /\ Len(last.exec) >= 1
    /\ \E d \in Range(OmegaKeys(omega)) :
          /\ OnCycle(omega, d)
          /\ Cardinality(DependsOn(omega, {}, {d})) >= 2
          /\ d \notin DOMAIN psi_B

TagOrder ==
    << "bad_signature", "anchor_not_recent", "bad_service_id", "bad_code_hash",
       "wrong_assignment / not_authorized", "core_engaged", "future_report_slot",
       "report_before_last_rotation", "too_many_dependencies",
       "dependency_missing / segment_root_lookup_invalid",
       "too_high_work_report_gas", "service_item_gas_too_low",
       "duplicate_package_in_recent_history" >>

\* The report is signed by the identity it names, over its own digest.
Verifies(report) ==
    report.guarantorSignature =
        [signer |-> report.guarantorPublicKey, message |-> generateWorkDigest(report)]

\* The guarantor is in the roster of the epoch of the report's slot.
Assigned(report) ==
    LET context == report.refinementContext
        reportEpoch == report.slot \div REPORT_TIMEOUT_SLOTS
    IN  \/ /\ reportEpoch = context.currentEpoch
           /\ \E i \in DOMAIN context.currentGuarantors :
                 context.currentGuarantors[i] = report.guarantorPublicKey
        \/ /\ reportEpoch = context.currentEpoch - 1
           /\ \E i \in DOMAIN context.previousGuarantors :
                 context.previousGuarantors[i] = report.guarantorPublicKey

\* The report violates the named check in the current state.
Violates(tag, report, currentBlockDigests) ==
    LET serviceId == report.workPackage.authorizationServiceDetails.u
        registry == globalState.serviceRegistry
        items == report.workPackage.workItems
    IN  CASE tag = "bad_signature" -> ~Verifies(report)
          [] tag = "anchor_not_recent" ->
                currentSlot - report.refinementContext.anchorBlockNumber
                    > ANCHOR_MAX_AGE_SLOTS
          [] tag = "bad_service_id" -> serviceId \notin DOMAIN registry
          [] tag = "bad_code_hash" ->
                /\ serviceId \in DOMAIN registry
                /\ items[1].programHash # registry[serviceId].codeHash
          [] tag = "wrong_assignment / not_authorized" -> ~Assigned(report)
          [] tag = "core_engaged" ->
                /\ report.coreIndex \in DOMAIN globalState.coreStatus
                /\ globalState.coreStatus[report.coreIndex] = "engaged"
          [] tag = "future_report_slot" -> report.slot > currentSlot
          [] tag = "report_before_last_rotation" ->
                currentSlot - report.slot > REPORT_TIMEOUT_SLOTS
          [] tag = "too_many_dependencies" ->
                Len(report.dependencies) > MAX_DEPENDENCIES
          [] tag = "dependency_missing / segment_root_lookup_invalid" ->
                \E i \in DOMAIN report.dependencies :
                    report.dependencies[i] \notin
                        (DOMAIN xi \cup DOMAIN rho \cup currentBlockDigests)
          [] tag = "too_high_work_report_gas" -> report.gasUsed > MAX_WORK_REPORT_GAS
          [] tag = "service_item_gas_too_low" ->
                \E i \in DOMAIN items : items[i].gasLimit < MIN_SERVICE_ITEM_GAS
          [] tag = "duplicate_package_in_recent_history" ->
                generateWorkDigest(report) \in DOMAIN xi

\* The positions in TagOrder of the checks the report violates.
Violated(report, currentBlockDigests) ==
    {i \in DOMAIN TagOrder : Violates(TagOrder[i], report, currentBlockDigests)}

\* The report violates none of the checks listed before the named one.
PassesBefore(tag, report, currentBlockDigests) ==
    \A i \in Violated(report, currentBlockDigests) :
        \A j \in DOMAIN TagOrder : TagOrder[j] = tag => j <= i

\* What a Guarantee of the report does in the current state.
Outcome(report, currentBlockDigests) ==
    processGuaranteeExtrinsic(State, report, currentSlot, currentBlockDigests)

OutcomeTs(report, currentBlockDigests) ==
    processGuaranteeExtrinsicTs(State, report, currentSlot, currentBlockDigests)

\* C12: fixed validation order.  When a report violates one or several
\* checks, the reason recorded is the tag of the first violated check in
\* the order bad_signature, anchor_not_recent, bad_service_id,
\* bad_code_hash, wrong_assignment, core_engaged, future_report_slot,
\* report_before_last_rotation, too_many_dependencies, dependency_missing,
\* too_high_work_report_gas, service_item_gas_too_low,
\* duplicate_package_in_recent_history, and validation records no tag
\* outside this list.
C12_FixedValidationOrder ==
    calls < MaxCalls =>
        \A report \in ValidationReports, cbd \in BlockDigestChoices :
            LET failed == Violated(report, cbd)
                error == Outcome(report, cbd).error
            IN  /\ failed # {} =>
                      error = TagOrder[CHOOSE i \in failed : \A j \in failed : i <= j]
                /\ error # "ok" => error \in Range(TagOrder)

\* C13: bad_service_id is active.  A Guarantee whose work package names a
\* service that is not a key of globalState.serviceRegistry is rejected:
\* it returns false, the digest is routed to psi_B and the guarantor is
\* charged in psi_O, with the reason bad_service_id when no earlier check
\* of the order fails.
C13_UnknownServiceRejected ==
    calls < MaxCalls =>
        \A report \in ValidationReports, cbd \in BlockDigestChoices :
            Violates("bad_service_id", report, cbd) =>
                LET r == Outcome(report, cbd)
                    d == generateWorkDigest(report)
                IN  /\ ~r.ret
                    /\ r.state.rho = rho
                    /\ d \in DOMAIN r.state.psi_B
                    /\ report.guarantorPublicKey \in DOMAIN r.state.psi_O
                    /\ PassesBefore("bad_service_id", report, cbd) =>
                          r.state.psi_B[d].reason = "bad_service_id"

\* The reports held in rho, omega and xi.
StoredReports ==
    {rho[d].report : d \in DOMAIN rho}
    \cup {omega[i].report : i \in DOMAIN omega}
    \cup {xi[d] : d \in DOMAIN xi}

\* C14: bad_code_hash is active.  No report in rho, omega or xi has a
\* first Work-Item whose programHash differs from the codeHash declared by
\* the registration of its service.
C14_CodeHashEnforced ==
    \A report \in StoredReports :
        LET serviceId == report.workPackage.authorizationServiceDetails.u
        IN  serviceId \in DOMAIN globalState.serviceRegistry =>
                report.workPackage.workItems[1].programHash
                    = globalState.serviceRegistry[serviceId].codeHash

\* C15: guarantor assignment.  A Guarantee is admitted only if its
\* guarantor is in currentGuarantors and the epoch of the report's slot is
\* currentEpoch, or is in previousGuarantors and that epoch is
\* currentEpoch - 1.  In every other case it is rejected: nothing is
\* stored, the digest is routed to psi_B, and the reason is
\* wrong_assignment whenever the report passes the checks made before the
\* assignment check (signature, anchor, and the core index bound of the
\* .js build or the code hash of the .ts build).
C15_GuarantorAssignment ==
    calls < MaxCalls =>
        \A report \in ValidationReports, cbd \in BlockDigestChoices :
            LET js == Outcome(report, cbd)
                ts == OutcomeTs(report, cbd)
                d == generateWorkDigest(report)
                early == /\ Verifies(report)
                         /\ ~Violates("anchor_not_recent", report, cbd)
            IN  /\ js.error = "ok" => Assigned(report)
                /\ ts.error = "ok" => Assigned(report)
                /\ ~Assigned(report) =>
                      /\ ~js.ret /\ ~ts.ret
                      /\ js.state.rho = rho /\ js.state.omega = omega
                      /\ ts.state.rho = rho /\ ts.state.omega = omega
                      /\ d \in DOMAIN js.state.psi_B /\ d \in DOMAIN ts.state.psi_B
                      /\ (early /\ report.coreIndex \in 0..MAX_CORE_INDEX) =>
                            js.state.psi_B[d].reason = "wrong_assignment / not_authorized"
                      /\ (early /\ ~Violates("bad_code_hash", report, cbd)) =>
                            ts.state.psi_B[d].reason = "wrong_assignment / not_authorized"

\* A Guarantee of a guarantor of the previous roster, for a report whose
\* slot lies in the epoch before the declared one, has been admitted.
C15_Witness ==
    /\ last.op \in {"guarantee", "guarantee_ts"}
    /\ last.error = "ok"
    /\ last.digest \in DOMAIN rho
    /\ LET report == rho[last.digest].report
       IN  /\ report.guarantorPublicKey = last.key
           /\ ~Includes(report.refinementContext.currentGuarantors, last.key)
           /\ report.slot \div REPORT_TIMEOUT_SLOTS
                 = report.refinementContext.currentEpoch - 1

\* The checks of the list that guaranteeProcessor.js never throws.
InactiveJs == {"bad_service_id", "bad_code_hash"}

\* Among the checks guaranteeProcessor.js makes, the named one is the
\* first the report can fail: its core index is within bounds and it
\* violates no active check listed before the named one.
ReachesJs(tag, report, currentBlockDigests) ==
    /\ report.coreIndex \in 0..MAX_CORE_INDEX
    /\ \A i \in Violated(report, currentBlockDigests) :
          TagOrder[i] \notin InactiveJs =>
              \A j \in DOMAIN TagOrder : TagOrder[j] = tag => j <= i

\* C16: dependency closure.  A Guarantee is admitted only at a moment when
\* each digest in its dependencies is a key of xi, a key of rho, or in
\* currentBlockDigests, so every report in rho, omega or xi was admitted
\* at such a moment; a Guarantee with a dependency in none of the three is
\* rejected: nothing is stored, the digest is routed to psi_B, and the
\* reason is dependency_missing whenever no earlier check fails.
C16_DependencyClosure ==
    \A report \in Reports, cbd \in BlockDigestChoices :
        LET r == Outcome(report, cbd)
            d == generateWorkDigest(report)
            tag == "dependency_missing / segment_root_lookup_invalid"
        IN  /\ r.error = "ok" => ~Violates(tag, report, cbd)
            /\ Violates(tag, report, cbd) =>
                  /\ ~r.ret
                  /\ r.state.rho = rho /\ r.state.omega = omega /\ r.state.xi = xi
                  /\ d \in DOMAIN r.state.psi_B
                  /\ ReachesJs(tag, report, cbd) => r.state.psi_B[d].reason = tag

\* A report with a dependency sits in omega, admitted earlier, and the
\* latest Guarantee has been rejected for a missing dependency.
C16_Witness ==
    /\ last.op = "guarantee"
    /\ last.error = "dependency_missing / segment_root_lookup_invalid"
    /\ last.digest \in DOMAIN psi_B
    /\ \E i \in DOMAIN omega : omega[i].report.dependencies # <<>>

\* C17: duplicate of a finalized report.  A Guarantee whose digest d is
\* already a key of xi is rejected: it returns false, adds nothing to rho
\* or omega, leaves xi untouched, sets psi_B[d] and charges the submitting
\* guarantor in psi_O; the reason is duplicate_package_in_recent_history
\* whenever no earlier check fails.
C17_DuplicateOfFinalized ==
    \A report \in Reports, cbd \in BlockDigestChoices :
        LET r == Outcome(report, cbd)
            d == generateWorkDigest(report)
            g == report.guarantorPublicKey
            tag == "duplicate_package_in_recent_history"
        IN  d \in DOMAIN xi =>
                /\ ~r.ret
                /\ r.state.rho = rho /\ r.state.omega = omega /\ r.state.xi = xi
                /\ d \in DOMAIN r.state.psi_B
                /\ r.state.psi_B[d] = [reason |-> r.error,
                                       disputedBy |-> {"system_validation"}]
                /\ g \in DOMAIN r.state.psi_O
                /\ r.state.psi_O[g].disputeCount =
                      IF g \in DOMAIN psi_O THEN psi_O[g].disputeCount + 1 ELSE 1
                /\ ReachesJs(tag, report, cbd) => r.error = tag

\* A Guarantee for a digest that xi holds has been rejected as a
\* duplicate; the finalized report is still in xi.
C17_Witness ==
    /\ last.op = "guarantee"
    /\ last.error = "duplicate_package_in_recent_history"
    /\ last.digest \in DOMAIN xi
    /\ last.digest \in DOMAIN psi_B
    /\ psi_B[last.digest].reason = "duplicate_package_in_recent_history"

\* C18: signature invariant.  From the empty state, every report stored in
\* rho, omega or xi carries a signature that verifies over its signable
\* object under the identity it names, and every identity in a
\* receivedSignatures set was added by a Guarantee naming that identity
\* that passed validation, its signature check included.
C18_SignatureInvariant ==
    /\ [](\A report \in StoredReports : Verifies(report))
    /\ [][\A d \in DOMAIN rho' :
            \A g \in rho'[d].receivedSignatures :
                (d \in DOMAIN rho => g \notin rho[d].receivedSignatures) =>
                    /\ last'.op = "guarantee"
                    /\ last'.digest = d
                    /\ last'.key = g
                    /\ last'.error = "ok"
                    /\ \E report \in Reports :
                          /\ generateWorkDigest(report) = d
                          /\ report.guarantorPublicKey = g
                          /\ Verifies(report)]_vars

\* A report endorsed by g2 is stored while the forged report, which names
\* g1 under a signature of g3, has been submitted and rejected.
C18_Witness ==
    /\ \E report \in StoredReports : report.guarantorPublicKey = "g2"
    /\ \E d \in DOMAIN psi_B : psi_B[d].reason = "bad_signature"
    /\ \E d \in DOMAIN rho : rho[d].receivedSignatures # {}

\* C19: timeout eviction.  If digest d has been pending in rho for more
\* than REPORT_TIMEOUT_SLOTS slots (currentSlot - rho[d].submissionSlot >
\* REPORT_TIMEOUT_SLOTS), the next Guarantee submitted for d removes d from
\* rho, sets psi_B[d] to {reason "timed_out", disputedBy {"system_timeout"}}
\* and returns false.
C19_TimeoutEviction ==
    [][(/\ last'.op = "guarantee"
        /\ last'.digest \in DOMAIN rho
        /\ currentSlot - rho[last'.digest].submissionSlot > REPORT_TIMEOUT_SLOTS)
       => /\ last'.ret = "false"
          /\ last'.digest \notin DOMAIN rho'
          /\ last'.digest \in DOMAIN psi_B'
          /\ psi_B'[last'.digest] = [reason |-> "timed_out",
                                     disputedBy |-> {"system_timeout"}]]_vars

\* C20: submissionSlot is fixed by the first accepted Guarantee for a
\* digest.  While d stays in rho, no call changes rho[d].submissionSlot or
\* rho[d].report; a later Guarantee for d that is accepted adds its
\* identity to rho[d].receivedSignatures, and no identity is ever removed.
C20_SubmissionSlotFixed ==
    [][\A d \in DOMAIN rho \cap DOMAIN rho' :
          /\ rho'[d].submissionSlot = rho[d].submissionSlot
          /\ rho'[d].report = rho[d].report
          /\ rho[d].receivedSignatures \subseteq rho'[d].receivedSignatures
          /\ (last'.op = "guarantee" /\ last'.digest = d /\ last'.error = "ok") =>
                rho'[d].receivedSignatures
                    = rho[d].receivedSignatures \cup {last'.key}]_vars

\* A second guarantor has endorsed a pending report at a later slot than
\* the first: the entry holds both identities, the first one's report and
\* the first submission slot.
C20_Witness ==
    /\ last.op = "guarantee"
    /\ last.error = "ok"
    /\ last.digest \in DOMAIN rho
    /\ Cardinality(rho[last.digest].receivedSignatures) = 2
    /\ rho[last.digest].report.guarantorPublicKey # last.key
    /\ rho[last.digest].submissionSlot < currentSlot

\* The record psi_O holds for guarantor g after one more charge at the
\* current slot.
ChargedOnce(g) ==
    [disputeCount |-> IF g \in DOMAIN psi_O THEN psi_O[g].disputeCount + 1 ELSE 1,
     lastDisputeSlot |-> currentSlot]

\* Every record of psi_O other than g's is as it was.
OthersUncharged(g) ==
    \A h \in DOMAIN psi_O' \ {g} : h \in DOMAIN psi_O /\ psi_O'[h] = psi_O[h]

\* C21: dispute of a live report.  A Dispute {d, p, r} at slot s against a
\* digest in rho or omega removes d from rho and omega, records d in psi_B
\* (as {reason r, disputedBy {p}} when psi_B[d] was absent), increments the
\* disputeCount of the stored report's guarantor by exactly one with
\* lastDisputeSlot = s and charges nobody else; an accumulation sweep that
\* follows neither executes d nor puts it in xi.
C21_DisputeOfLiveReport ==
    /\ [][(/\ last'.op = "dispute"
           /\ (last'.digest \in DOMAIN rho \/ OmegaHas(omega, last'.digest)))
          => LET d == last'.digest
                 p == last'.key
                 stored == IF OmegaHas(omega, d) THEN OmegaGet(omega, d).report
                           ELSE rho[d].report
                 g == stored.guarantorPublicKey
             IN  /\ d \notin DOMAIN rho'
                 /\ ~OmegaHas(omega', d)
                 /\ d \in DOMAIN psi_B'
                 /\ p \in psi_B'[d].disputedBy
                 /\ d \notin DOMAIN psi_B =>
                       psi_B'[d] = [reason |-> "bad_output", disputedBy |-> {p}]
                 /\ g \in DOMAIN psi_O'
                 /\ psi_O'[g] = ChargedOnce(g)
                 /\ OthersUncharged(g)]_vars
    /\ [](last.op = "dispute" =>
            LET r == processAccumulationQueue(State, currentSlot)
            IN  /\ PositionsOf(ExecutedDigests(r.exec), last.digest) = {}
                /\ last.digest \in DOMAIN r.state.xi => last.digest \in DOMAIN xi)

\* A live report was disputed, and the sweep that followed executed
\* nothing: the digest is in psi_B under the
\* disputer's name and in none of rho, omega, xi.
C21_Witness ==
    /\ last.op = "accumulate"
    /\ last.exec = <<>>
    /\ \E d \in DOMAIN psi_B :
          /\ psi_B[d].reason = "bad_output"
          /\ psi_B[d].disputedBy \subseteq Disputers
          /\ BucketsOf(d) = {}
    /\ \E g \in DOMAIN psi_O : psi_O[g].disputeCount = 1

\* C22: dispute without a target.  A Dispute whose digest is in none of
\* rho, omega, xi returns and leaves rho, omega, xi, psi_B, psi_O and
\* globalState unchanged, and no Dispute in any reachable state raises the
\* 'not found' error; so a dispute replayed after its target was removed
\* is a no-op.
C22_DisputeWithoutTarget ==
    [][last'.op = "dispute" =>
          /\ last'.error = "ok"
          /\ (/\ last'.digest \notin DOMAIN rho
              /\ ~OmegaHas(omega, last'.digest)
              /\ last'.digest \notin DOMAIN xi) => StateUnchanged]_vars

\* A dispute has been replayed by another disputer after its target was
\* removed: psi_B holds the digest without the second disputer's name.
C22_Witness ==
    /\ last.op = "dispute"
    /\ BucketsOf(last.digest) = {}
    /\ last.digest \in DOMAIN psi_B
    /\ psi_B[last.digest].reason = "bad_output"
    /\ last.key \notin psi_B[last.digest].disputedBy

\* C23: late dispute.  A Dispute against a digest d that is only in xi
\* leaves xi[d] in place, inserts psi_B[d] or adds the disputer to it, and
\* increments the disputeCount of xi[d]'s guarantor by one with
\* lastDisputeSlot set to the slot of the dispute.
C23_LateDispute ==
    [][(/\ last'.op = "dispute"
        /\ last'.digest \in DOMAIN xi
        /\ last'.digest \notin DOMAIN rho
        /\ ~OmegaHas(omega, last'.digest))
       => LET d == last'.digest
              g == xi[d].guarantorPublicKey
          IN  /\ xi' = xi
              /\ d \in DOMAIN psi_B'
              /\ psi_B'[d] = IF d \in DOMAIN psi_B
                             THEN [psi_B[d] EXCEPT !.disputedBy = @ \cup {last'.key}]
                             ELSE [reason |-> "bad_output", disputedBy |-> {last'.key}]
              /\ g \in DOMAIN psi_O'
              /\ psi_O'[g] = ChargedOnce(g)
              /\ OthersUncharged(g)]_vars

\* A finalized report has been disputed: it is still in xi, and the
\* guarantor named in it carries the charge of the dispute's slot.
C23_Witness ==
    /\ last.op = "dispute"
    /\ BucketsOf(last.digest) = {"xi"}
    /\ last.digest \in DOMAIN psi_B
    /\ last.key \in psi_B[last.digest].disputedBy
    /\ xi[last.digest].guarantorPublicKey \in DOMAIN psi_O
    /\ psi_O[xi[last.digest].guarantorPublicKey].lastDisputeSlot = currentSlot

\* The psi_B merge of a Dispute step on a digest that psi_B already holds.
MergedOnDispute ==
    LET d == last'.digest
    IN  /\ d \in DOMAIN psi_B'
        /\ last'.key \in psi_B'[d].disputedBy
        /\ psi_B[d].disputedBy \subseteq psi_B'[d].disputedBy
        /\ psi_B'[d].reason = psi_B[d].reason

\* C24 as stated: psi_B merge on dispute.  When a Dispute {d, p, r} is
\* processed and psi_B[d] already exists, p is added to psi_B[d].disputedBy,
\* every identity already in disputedBy is kept and the reason keeps its
\* earlier value.
C24_MergeOnDispute ==
    [][(last'.op = "dispute" /\ last'.digest \in DOMAIN psi_B)
       => MergedOnDispute]_vars

\* C24 amended: the same merge, for a Dispute whose digest is in rho, omega
\* or xi when it is processed; a Dispute of a digest in none of them leaves
\* psi_B[d] as it was, p not added.
C24_MergeOnLocatedDispute ==
    [][(last'.op = "dispute" /\ last'.digest \in DOMAIN psi_B)
       => IF BucketsOf(last'.digest) # {}
          THEN /\ MergedOnDispute
               /\ psi_B'[last'.digest].disputedBy =
                      psi_B[last'.digest].disputedBy \cup {last'.key}
          ELSE psi_B' = psi_B]_vars

\* A report rejected by validation and recorded in psi_B under the tag of
\* the failure has then been disputed: the disputer stands beside the
\* identity recorded first and the reason is still the tag.
C24_Witness ==
    /\ last.op = "dispute"
    /\ last.digest \in DOMAIN psi_B
    /\ psi_B[last.digest].reason # "bad_output"
    /\ last.key \in psi_B[last.digest].disputedBy
    /\ Cardinality(psi_B[last.digest].disputedBy) >= 2

FailedExecutions == {i \in DOMAIN last'.exec : ~last'.exec[i].ok}

FailuresOf(g) ==
    Cardinality({i \in FailedExecutions :
        OmegaGet(omega, last'.exec[i].digest).report.guarantorPublicKey = g})

\* C26: accumulation-failure routing.  When Psi_A fails (gas overrun
\* included) on any Work-Item of report d during a sweep at slot s, d is
\* removed from omega and not added to xi, psi_B[d] is set to reason
\* "accumulation_failed: " followed by the message of the error with
\* disputedBy {"system_accumulation"}, the disputeCount of d's guarantor is
\* incremented by one with lastDisputeSlot = s, the error is not propagated
\* to the caller, and the sweep continues with the remaining sorted
\* reports.
C26_AccumulationFailureRouting ==
    [][last'.op = "accumulate" =>
         /\ last'.error = "ok"
         /\ Len(last'.exec) = Len(last'.sorted)
         /\ \A i \in DOMAIN last'.exec : last'.exec[i].digest = last'.sorted[i]
         /\ \A i \in FailedExecutions :
               LET e == last'.exec[i]
                   report == OmegaGet(omega, e.digest).report
                   g == report.guarantorPublicKey
                   run == RunItems(report.workPackage.workItems, e.before, 1)
               IN  /\ ~run.ok
                   /\ ~OmegaHas(omega', e.digest)
                   /\ e.digest \notin DOMAIN xi'
                   /\ e.digest \in DOMAIN psi_B'
                   /\ psi_B'[e.digest] =
                          [reason |-> "accumulation_failed: " \o run.message,
                           disputedBy |-> {"system_accumulation"}]
                   /\ g \in DOMAIN psi_O'
                   /\ psi_O'[g].lastDisputeSlot = currentSlot
                   /\ psi_O'[g].disputeCount =
                          (IF g \in DOMAIN psi_O THEN psi_O[g].disputeCount ELSE 0)
                              + FailuresOf(g)]_vars

\* A sweep has met the gas overrun of O's second item, recorded O under
\* the message of the error, charged g1 at the slot of the sweep, and gone
\* on to finalize the report sorted after O.
C26_Witness ==
    /\ last.op = "accumulate"
    /\ \E i, j \in DOMAIN last.exec :
          /\ i < j
          /\ last.exec[i].digest = PvmHexOf[3]
          /\ ~last.exec[i].ok
          /\ last.exec[i].failedItem = 2
          /\ last.exec[j].ok
          /\ last.exec[j].digest \in DOMAIN xi
    /\ BucketsOf(PvmHexOf[3]) = {}
    /\ PvmHexOf[3] \in DOMAIN psi_B
    /\ psi_B[PvmHexOf[3]].reason =
          "accumulation_failed: Psi_A PVM execution failed for Work-Item wi-o2: Gas limit exceeded for Work-Item wi-o2. Consumed: 50, Limit: 30"
    /\ "g1" \in DOMAIN psi_O
    /\ psi_O["g1"] = [disputeCount |-> 1, lastDisputeSlot |-> currentSlot]

\* What one successful Work-Item is to have done to the accounts and the
\* data of a global state: a transfer of a from X to another account Y
\* lowers X by a and raises Y by a, a data update writes its key.
ItemEffect(workItem, gs) ==
    LET in == workItem.inputData
    IN  IF workItem.programHash = "0xtransfer"
        THEN [gs EXCEPT !.accounts =
                 [a \in DOMAIN gs.accounts \cup {in.from, in.to} |->
                     IF a = in.from THEN Account(gs.accounts[a].balance - in.amount)
                     ELSE IF a = in.to THEN Account(balanceOf(gs.accounts, a) + in.amount)
                     ELSE gs.accounts[a]]]
        ELSE IF workItem.programHash = "0xupdateData"
        THEN [gs EXCEPT !.data =
                 [k \in DOMAIN gs.data \cup {in.key} |->
                     IF k = in.key THEN in.value ELSE gs.data[k]]]
        ELSE gs

\* What the Work-Items of a list are to have done to the log: nothing when
\* all are transfers and data updates; otherwise the log still begins with
\* what it held and ends with the entry of the last item of another
\* program.
LogReflects(workItems, before, after) ==
    LET others == SelectSeq(workItems,
                      LAMBDA w : w.programHash \notin {"0xtransfer", "0xupdateData"})
    IN  IF others = <<>> THEN after.log = before.log
        ELSE /\ Len(after.log) > Len(before.log)
             /\ SubSeq(after.log, 1, Len(before.log)) = before.log
             /\ after.log[Len(after.log)] = others[Len(others)].programHash

\* The effects of the Work-Items of a list, in the order of the list.
RECURSIVE ItemEffects(_, _)
ItemEffects(workItems, gs) ==
    IF workItems = <<>> THEN gs
    ELSE ItemEffects(Tail(workItems), ItemEffect(Head(workItems), gs))

\* The signatures a report of the sweep catalogue needs.
PvmRequired(d) ==
    LET context == PvmContents[CHOOSE i \in DOMAIN PvmHexOf : PvmHexOf[i] = d].refinementContext
    IN  CeilDiv(2 * (Len(context.currentGuarantors) + Len(context.previousGuarantors)), 3)

\* C27: successful lifecycle.  A report whose signatures reach the
\* threshold is in omega with status ready and absent from rho; the next
\* processAccumulationQueue executes it, and when all its Work-Items
\* succeed it is then absent from omega, xi[d] holds the report, and
\* globalState reflects its Work-Items in order (a 0xtransfer of a from X to
\* a different account Y lowers X's balance by a and raises Y's by a).
C27_SuccessfulLifecycle ==
    /\ [](\A i \in DOMAIN omega : omega[i].status = "ready")
    /\ [][/\ (/\ last'.op = "guarantee" /\ last'.error = "ok"
              /\ ~(last'.digest \in DOMAIN rho
                   /\ last'.key \in rho[last'.digest].receivedSignatures)
              /\ Cardinality((IF last'.digest \in DOMAIN rho
                              THEN rho[last'.digest].receivedSignatures ELSE {})
                             \cup {last'.key}) >= PvmRequired(last'.digest))
             => /\ last'.digest \notin DOMAIN rho'
                /\ OmegaHas(omega', last'.digest)
                /\ OmegaGet(omega', last'.digest).status = "ready"
                /\ generateWorkDigest(OmegaGet(omega', last'.digest).report) = last'.digest
          /\ last'.op = "accumulate"
             => /\ \A i \in DOMAIN omega :
                      \E j \in DOMAIN last'.exec : last'.exec[j].digest = omega[i].digest
                /\ \A j \in DOMAIN last'.exec :
                      LET e == last'.exec[j]
                          report == OmegaGet(omega, e.digest).report
                      IN  e.ok => /\ ~OmegaHas(omega', e.digest)
                                  /\ e.digest \in DOMAIN xi'
                                  /\ xi'[e.digest] = report
                                  /\ [e.after EXCEPT !.log = e.before.log] =
                                         ItemEffects(report.workPackage.workItems,
                                                     e.before)
                                  /\ LogReflects(report.workPackage.workItems,
                                                 e.before, e.after)
                /\ \A j \in DOMAIN last'.exec :
                      last'.exec[j].before = IF j = 1 THEN globalState
                                             ELSE last'.exec[j - 1].after
                /\ globalState' = IF last'.exec = <<>> THEN globalState
                                  ELSE last'.exec[Len(last'.exec)].after
         ]_vars

\* P, endorsed by two of its three guarantors, and T have been through a
\* sweep: both are in xi only, T's transfer of 60 has moved 0xAlice from
\* 100 to 40 and 0xBob from 50 to 110, and P's update is in data.
C27_Witness ==
    /\ last.op = "accumulate"
    /\ BucketsOf(PvmHexOf[1]) = {"xi"}
    /\ BucketsOf(PvmHexOf[5]) = {"xi"}
    /\ xi[PvmHexOf[1]] \in PvmReports
    /\ globalState.accounts["0xAlice"].balance = 40
    /\ globalState.accounts["0xBob"].balance = 110
    /\ "k2" \in DOMAIN globalState.data
    /\ globalState.data["k2"] = "v2"

\* C28: delta application.  Applying a Work-Item's delta replaces or merges
\* exactly the sections the delta names (accounts by key, data
\* shallow-merged, log appended); every other section of globalState,
\* coreStatus, serviceRegistry and previously written data and log
\* included, keeps its value.  Stated over the reports a sweep finalizes:
\* accounts, data, coreStatus and serviceRegistry are what the items'
\* effects in order make of the state the report started from, and the log
\* is kept and extended only by items of other programs.
C28_DeltaApplication ==
    [][last'.op \in {"accumulate", "accumulate_ts"} =>
         \A j \in DOMAIN last'.exec :
            LET e == last'.exec[j]
                workItems == OmegaGet(omega, e.digest).report.workPackage.workItems
            IN  e.ok => /\ [e.after EXCEPT !.log = e.before.log] =
                               ItemEffects(workItems, e.before)
                        /\ LogReflects(workItems, e.before, e.after)]_vars

\* D as g1 submits it: its dependencies are [digest(P)].
DependentReport == WorkReport(PvmContents[6], "g1", signMessage(PvmContents[6], "g1"))

\* C29: dependency chain.  When report A (no dependencies) is admitted
\* first and report B with dependencies = [digest(A)] is admitted afterwards
\* while digest(A) is in rho or in currentBlockDigests, B passes validation;
\* and once both A and B have been promoted to omega, a single
\* processAccumulationQueue executes A before B and leaves both in xi.
\* Here A is P and B is D, submitted within the age of its anchor and not
\* finalized before.
C29_DependencyChain ==
    /\ []((block = 0 /\ PvmHexOf[6] \notin DOMAIN xi) =>
            /\ PvmHexOf[5] \in DOMAIN rho =>
                  validateWorkReport(DependentReport, State, currentSlot, {}) = "ok"
            /\ validateWorkReport(DependentReport, State, currentSlot, {PvmHexOf[5]}) = "ok")
    /\ [][/\ (/\ last'.op = "guarantee" /\ last'.digest = PvmHexOf[6]
              /\ block = 0 /\ PvmHexOf[6] \notin DOMAIN xi
              /\ PvmHexOf[5] \in DOMAIN rho)
             => last'.error = "ok" /\ last'.ret = "true" /\ OmegaHas(omega', PvmHexOf[6])
          /\ (/\ last'.op = "accumulate"
              /\ OmegaHas(omega, PvmHexOf[5]) /\ OmegaHas(omega, PvmHexOf[6]))
             => /\ \E i, j \in DOMAIN last'.exec :
                      /\ i < j
                      /\ last'.exec[i].digest = PvmHexOf[5] /\ last'.exec[i].ok
                      /\ last'.exec[j].digest = PvmHexOf[6] /\ last'.exec[j].ok
                /\ ~OmegaHas(omega', PvmHexOf[5]) /\ ~OmegaHas(omega', PvmHexOf[6])
                /\ PvmHexOf[5] \in DOMAIN xi' /\ PvmHexOf[6] \in DOMAIN xi'
                /\ xi'[PvmHexOf[5]] = OmegaGet(omega, PvmHexOf[5]).report
                /\ xi'[PvmHexOf[6]] = OmegaGet(omega, PvmHexOf[6]).report
         ]_vars

\* D was admitted while P was pending and reached omega before P did; the
\* sweep has sorted P before D, executed both, and both are in xi, D's
\* update written after P's.
C29_Witness ==
    /\ last.op = "accumulate"
    /\ last.sorted = <<PvmHexOf[5], PvmHexOf[6]>>
    /\ Len(last.exec) = 2
    /\ last.exec[1].digest = PvmHexOf[5] /\ last.exec[1].ok
    /\ last.exec[2].digest = PvmHexOf[6] /\ last.exec[2].ok
    /\ "k3" \notin DOMAIN last.exec[2].before.data
    /\ "k2" \in DOMAIN last.exec[2].before.data
    /\ BucketsOf(PvmHexOf[5]) = {"xi"}
    /\ BucketsOf(PvmHexOf[6]) = {"xi"}
    /\ xi[PvmHexOf[6]].dependencies = <<PvmHexOf[5]>>

\* C30: processAccumulationQueue never reads or modifies rho.  A digest
\* that has not reached the signature threshold (in rho, not in omega) stays
\* in rho with the same report, receivedSignatures and submissionSlot across
\* any number of sweeps, and is never executed or finalized by one.
C30_SweepLeavesPending ==
    [][last'.op = "accumulate" =>
         /\ rho' = rho
         /\ \A d \in DOMAIN rho :
               ~OmegaHas(omega, d) =>
                  /\ \A j \in DOMAIN last'.exec : last'.exec[j].digest # d
                  /\ ~OmegaHas(omega', d)
                  /\ d \in DOMAIN xi' => d \in DOMAIN xi]_vars

\* A sweep has executed a report while P, endorsed by g1 alone, was
\* pending: P is still in rho only, with g1's signature and the slot of its
\* submission.
C30_Witness ==
    /\ last.op = "accumulate"
    /\ last.exec # <<>>
    /\ BucketsOf(PvmHexOf[5]) = {"rho"}
    /\ rho[PvmHexOf[5]].receivedSignatures = {"g1"}
    /\ rho[PvmHexOf[5]].submissionSlot = SlotOf(0)
    /\ rho[PvmHexOf[5]].report \in PvmReports

\* The signatures of the model, over any content by any guarantor.
Signatures == {signMessage(Contents[i], k) : i \in DOMAIN Contents, k \in Guarantors}

\* generateWorkDigest does not depend on the signature a report carries.
SignatureFreeDigest ==
    \A r \in Reports, sig \in Signatures :
        generateWorkDigest([r EXCEPT !.guarantorSignature = sig]) = generateWorkDigest(r)

\* The reports that differ from report r in their signature and in nothing
\* else.
ResignedReports(r) ==
    {q \in Reports : q # r /\ [q EXCEPT !.guarantorSignature = r.guarantorSignature] = r}

C32_TimeoutUnreachable ==
    /\ [](\A d \in DOMAIN psi_B : psi_B[d].reason # "timed_out")
    /\ [](\A d \in DOMAIN rho : rho[d].report.slot <= rho[d].submissionSlot)
    /\ [][(last'.op = "guarantee" /\ last'.digest \in DOMAIN rho) =>
             LET d == last'.digest
                 late == currentSlot - rho[d].submissionSlot > REPORT_TIMEOUT_SLOTS
             IN  /\ last'.error = "ok" => ~late
                 /\ late => /\ last'.error \in {"anchor_not_recent",
                                               "report_before_last_rotation"}
                            /\ d \in DOMAIN rho'
                            /\ rho'[d] = rho[d]]_vars

\* A Guarantee has touched a digest pending for more than
\* REPORT_TIMEOUT_SLOTS slots: validation has thrown for the age of the
\* report's slot, and the digest is still in rho.
C32_Witness ==
    /\ last.op = "guarantee"
    /\ last.error = "report_before_last_rotation"
    /\ last.digest \in DOMAIN rho
    /\ currentSlot - rho[last.digest].submissionSlot > REPORT_TIMEOUT_SLOTS
    /\ last.digest \in DOMAIN psi_B
    /\ psi_B[last.digest].reason = "report_before_last_rotation"

\* C33: a digest recorded in psi_B is never live again.  Once d has a psi_B
\* entry (after a dispute, a validation failure or an accumulation failure),
\* d is not in rho or omega, and no later Guarantee admits d to rho, promotes
\* it to omega, or lets it be finalized in xi.
C33_BadReportNeverLive ==
    /\ [](\A d \in DOMAIN psi_B : d \notin DOMAIN rho /\ ~OmegaHas(omega, d))
    /\ [][\A d \in DOMAIN psi_B :
             /\ d \in DOMAIN rho' => d \in DOMAIN rho
             /\ OmegaHas(omega', d) => OmegaHas(omega, d)
             /\ d \in DOMAIN xi' => d \in DOMAIN xi]_vars

\* The Guarantee of D with no digest of the current block, as the state
\* would process it now.
DependentGuarantee == processGuaranteeExtrinsic(State, DependentReport, currentSlot, {})

\* C34: the dependency check does not look in omega.  A Guarantee for
\* report B whose dependency dA has been promoted to omega (and is not in
\* xi, rho or currentBlockDigests) is rejected with dependency_missing,
\* recorded in psi_B, and B's guarantor is charged in psi_O; a dependent is
\* admitted only before its dependency is promoted or after it is
\* finalized.  Here dA is P and B is D, submitted within the age of its
\* anchor.
C34_QueuedDependencyNotMet ==
    /\ (/\ OmegaHas(omega, PvmHexOf[5])
        /\ PvmHexOf[5] \notin DOMAIN rho
        /\ PvmHexOf[5] \notin DOMAIN xi)
       => /\ ~DependentGuarantee.ret
          /\ DependentGuarantee.error # "ok"
          /\ block = 0 =>
                DependentGuarantee.error = "dependency_missing / segment_root_lookup_invalid"
          /\ DependentGuarantee.state.rho = rho
          /\ DependentGuarantee.state.omega = omega
          /\ DependentGuarantee.state.xi = xi
          /\ PvmHexOf[6] \in DOMAIN DependentGuarantee.state.psi_B
          /\ DependentGuarantee.state.psi_B[PvmHexOf[6]] =
                 [reason |-> DependentGuarantee.error,
                  disputedBy |-> {"system_validation"}]
          /\ "g1" \in DOMAIN DependentGuarantee.state.psi_O
          /\ DependentGuarantee.state.psi_O["g1"] =
                 [disputeCount |-> IF "g1" \in DOMAIN psi_O
                                   THEN psi_O["g1"].disputeCount + 1 ELSE 1,
                  lastDisputeSlot |-> currentSlot]
    /\ (block = 0 /\ PvmHexOf[6] \notin DOMAIN xi) =>
          (DependentGuarantee.error = "ok"
              <=> (PvmHexOf[5] \in DOMAIN rho \/ PvmHexOf[5] \in DOMAIN xi))

\* D has been submitted while P was in omega and nowhere else: the
\* Guarantee was rejected for the missing dependency, D is in psi_B and not
\* pending, and g1 is charged.
C34_Witness ==
    /\ last.op = "guarantee"
    /\ last.digest = PvmHexOf[6]
    /\ last.error = "dependency_missing / segment_root_lookup_invalid"
    /\ BucketsOf(PvmHexOf[5]) = {"omega"}
    /\ BucketsOf(PvmHexOf[6]) = {}
    /\ PvmHexOf[6] \in DOMAIN psi_B
    /\ psi_B[PvmHexOf[6]].disputedBy = {"system_validation"}
    /\ "g1" \in DOMAIN psi_O

\* C35: a report is finalized only on top of finalized dependencies.
\* Whenever processAccumulationQueue moves a digest d into xi, every digest
\* in xi[d].dependencies is already in xi; a report whose dependency failed
\* accumulation earlier in the same sweep, was disputed, or is still pending
\* in rho is not executed.  Stated over the reports a sweep executes: each
\* dependency was in xi before the sweep or was finalized earlier in it.
C35_FinalizedDependencies ==
    [][last'.op \in {"accumulate", "accumulate_ts"} =>
         \A j \in DOMAIN last'.exec :
            \A dep \in Range(OmegaGet(omega, last'.exec[j].digest).report.dependencies) :
               \/ dep \in DOMAIN xi
               \/ \E i \in 1..(j - 1) :
                     last'.exec[i].digest = dep /\ last'.exec[i].ok]_vars

RECURSIVE SumBalances(_, _)
SumBalances(accounts, keys) ==
    IF keys = {} THEN 0
    ELSE LET a == CHOOSE x \in keys : TRUE
         IN  accounts[a].balance + SumBalances(accounts, keys \ {a})

TotalBalance(accounts) == SumBalances(accounts, DOMAIN accounts)

\* C36: balance conservation of 0xtransfer.  For every successful
\* 0xtransfer Work-Item, with any from, to (from = to included) and any
\* integer amount (zero and negative included), the sum of all account
\* balances of globalState is the same before and after, and no account
\* that had a non-negative balance ends with a negative one.  The accounts
\* after the item are those of the delta that simulatePsiAPVM returns, which
\* carries every account of globalState.
C36_BalanceConservation ==
    [][(last'.op = "pvm" /\ last'.ok /\ last'.item.programHash = "0xtransfer") =>
         /\ TotalBalance(last'.delta.accounts) = TotalBalance(globalState.accounts)
         /\ \A a \in DOMAIN globalState.accounts :
               globalState.accounts[a].balance >= 0 =>
                  last'.delta.accounts[a].balance >= 0]_vars

\* The identities listed in either roster of a report.
RosterOf(report) ==
    Range(report.refinementContext.currentGuarantors)
        \cup Range(report.refinementContext.previousGuarantors)

\* C37: pending-entry invariant.  Starting from an empty state, between
\* operations every entry rho[d] has at least one signature and fewer than
\* ceil((|currentGuarantors| + |previousGuarantors|) * 2 / 3) of them, for
\* the rosters of rho[d].report, and every identity in receivedSignatures
\* is a member of currentGuarantors or previousGuarantors of that report.
C37_PendingEntryInvariant ==
    \A d \in DOMAIN rho :
        LET entry == rho[d]
            context == entry.report.refinementContext
            N == Len(context.currentGuarantors) + Len(context.previousGuarantors)
            n == Cardinality(entry.receivedSignatures)
        IN  /\ 1 <= n
            /\ 3 * n < 2 * N
            /\ entry.receivedSignatures \subseteq RosterOf(entry.report)

\* A report with four listed guarantors (threshold three) is pending with
\* two signatures after its second endorsement.
C37_Witness ==
    /\ last.op = "guarantee" /\ last.error = "ok" /\ last.ret = "true"
    /\ last.digest \in DOMAIN rho
    /\ Cardinality(rho[last.digest].receivedSignatures) = 2
    /\ Cardinality(RosterOf(rho[last.digest].report)) = 4

\* The identities that the assignment check lets endorse a report: the
\* current roster when the report's epoch is the declared one, the previous
\* roster when it is the one before.
EligibleGuarantors(report) ==
    LET context == report.refinementContext
        reportEpoch == report.slot \div REPORT_TIMEOUT_SLOTS
    IN  IF reportEpoch = context.currentEpoch
        THEN Range(context.currentGuarantors)
        ELSE IF reportEpoch = context.currentEpoch - 1
        THEN Range(context.previousGuarantors)
        ELSE {}

\* C38: promotion is reachable.  For every report R that passes validation,
\* once each guarantor that the assignment check allows to endorse R has
\* submitted a valid Guarantee for R, with no dispute in between, R has
\* been moved to omega; the threshold computed from |currentGuarantors| +
\* |previousGuarantors| never exceeds the number of identities eligible to
\* sign.  So no entry of rho holds the signature of every eligible
\* guarantor, and 3 * |eligible| >= 2 * N for every pending report.
C38_PromotionReachable ==
    [][(last'.op = "guarantee" /\ last'.error = "ok") =>
         \A d \in DOMAIN rho' :
            LET report == rho'[d].report
                context == report.refinementContext
                N == Len(context.currentGuarantors) + Len(context.previousGuarantors)
            IN  /\ 3 * Cardinality(EligibleGuarantors(report)) >= 2 * N
                /\ ~(EligibleGuarantors(report) \subseteq rho'[d].receivedSignatures)
      ]_vars

\* The step charges g once, at the current slot, and nobody else.
OnlyCharged(g) ==
    /\ g \in DOMAIN psi_O'
    /\ psi_O'[g] = ChargedOnce(g)
    /\ OthersUncharged(g)

\* C39: who is charged.  The report stored in omega[d] (and later in xi[d])
\* is the one carried by the Guarantee that triggered promotion, while
\* rho[d].report is the one carried by the first Guarantee; an accumulation
\* failure or a dispute of a digest in omega or xi charges the guarantor of
\* that stored report (the last endorser before promotion), a dispute of a
\* digest in rho charges the guarantor of rho[d].report (the first
\* submitter), and exactly one identity is charged per dispute.
C39_WhoIsCharged ==
    [][/\ (last'.op = "guarantee" /\ last'.error = "ok") =>
            LET d == last'.digest
            IN  /\ (d \notin DOMAIN rho /\ d \in DOMAIN rho') =>
                      rho'[d].report.guarantorPublicKey = last'.key
                /\ (d \in DOMAIN rho /\ d \in DOMAIN rho') =>
                      rho'[d].report = rho[d].report
                /\ (last'.ret = "true" /\ d \notin DOMAIN rho') =>
                      /\ OmegaHas(omega', d)
                      /\ OmegaGet(omega', d).report.guarantorPublicKey = last'.key
       /\ last'.op = "accumulate" =>
            /\ \A i \in DOMAIN last'.exec :
                  last'.exec[i].ok =>
                     xi'[last'.exec[i].digest] = OmegaGet(omega, last'.exec[i].digest).report
            /\ \A g \in DOMAIN psi_O' :
                  psi_O'[g].disputeCount =
                     (IF g \in DOMAIN psi_O THEN psi_O[g].disputeCount ELSE 0)
                         + FailuresOf(g)
       /\ (last'.op = "dispute" /\ last'.error = "ok") =>
            LET d == last'.digest
            IN  /\ OmegaHas(omega, d) =>
                      OnlyCharged(OmegaGet(omega, d).report.guarantorPublicKey)
                /\ d \in DOMAIN xi => OnlyCharged(xi[d].guarantorPublicKey)
                /\ d \in DOMAIN rho => OnlyCharged(rho[d].report.guarantorPublicKey)
      ]_vars

\* The record psi_O holds for g, if any, is as it was.
OffenderUnchanged(g) ==
    /\ g \in DOMAIN psi_O' <=> g \in DOMAIN psi_O
    /\ g \in DOMAIN psi_O => psi_O'[g] = psi_O[g]

\* C40: no framing of guarantors.  The Guarantee path increments
\* psi_O[g].disputeCount only for reports whose signature verifies under g:
\* a Guarantee that names g as guarantorPublicKey but carries a signature
\* that does not verify (bad_signature) does not change psi_O[g], and no
\* Guarantee changes the record of an identity it does not name.
C40_NoFraming ==
    [][last'.op \in {"guarantee", "guarantee_ts"} =>
         /\ last'.error = "bad_signature" => OffenderUnchanged(last'.key)
         /\ \A g \in (DOMAIN psi_O \cup DOMAIN psi_O') \ {last'.key} :
               OffenderUnchanged(g)]_vars

====
